---- MODULE Spec2Model ----
(***************************************************************************)
(* Voran: deterministic single-event oracle.                               *)
(*                                                                         *)
(* The model covers the resolver pipeline (fetch, extract, transform,      *)
(* evaluate, sign), the hasher/signer and the VoranOracle contract that    *)
(* verifies its payloads, the script sandbox and the spec validator.       *)
(*                                                                         *)
(* JavaScript values are records tagged by t.  A JavaScript string is a    *)
(* sequence of tokens (characters, or lexical units where only the units   *)
(* matter: URL scheme, path segment, source-code word), so that the        *)
(* string operations of the code (length, endsWith, parseFloat, regular    *)
(* expression tests, concatenation) are computed and not looked up.        *)
(***************************************************************************)
EXTENDS Integers, Sequences, FiniteSets, TLC

VARIABLES
    rpc,          \* resolve(): position in the pipeline
    rspec,        \* resolve(): the spec argument
    rkey,         \* resolve(): the privateKey argument
    rawResponse,  \* resolve(): const rawResponse
    extracted,    \* resolve(): const extracted
    transformed,  \* resolve(): const transformed
    result,       \* resolve(): const result
    calls,        \* resolve(): the stages invoked so far, in order
    emitted,      \* resolve(): payloads returned to the caller
    raised,       \* resolve(): errors thrown to the caller
    nowMs,        \* Date.now() of the resolver host, in milliseconds
    signLog,      \* hashAndSign(): every call made, with its arguments and payload
    markets,      \* VoranOracle.markets
    blockTime,    \* block.timestamp of the chain, in seconds
    created,      \* create-market: the spec and key each market was created from
    settleLog,    \* VoranOracle.settle: the last call, its pre-state and outcome
    spc,          \* executeScript(): position
    script,       \* executeScript(): the behaviour of the code argument
    reach,        \* executeScript(): objects the running script holds a reference to
    sout,         \* executeScript(): what the caller observes
    vinput,       \* validateSpec(): the spec argument
    vreport,      \* validateSpec(): what the caller observes
    tinput,       \* expandTemplate(): the template argument
    tout,         \* expandTemplate(): what the caller observes
    dspec,        \* dryRunSpec(): the spec argument
    dout,         \* dryRunSpec(): what the caller observes
    lastCall,     \* VoranOracle: the last call made, the state before it and its outcome
    ecall,        \* extractValue(): the arguments of a call and what the caller observes
    tcall,        \* transformValue(): the arguments of a call and what the caller observes
    requests,     \* the HTTP requests fetch() was called with, in order
    auditLog,     \* what log.request and log.response wrote, in order
    processEnv,   \* process.env as the last fetchData read it
    toolCall,     \* the last call of an AI tool: its input and what it returned
    rcall,        \* evaluateRule(): the arguments of a call and what the caller observes
    hostJSON      \* the host's JSON.stringify: "native", or "patched" once a script assigned to it

resolveVars == <<rpc, rspec, rkey, rawResponse, extracted, transformed, result,
                 calls, emitted, raised>>
signVars    == <<nowMs, signLog>>
chainVars   == <<markets, blockTime, created, settleLog>>
sandboxVars == <<spc, script, reach, sout>>
validVars   == <<vinput, vreport>>
aiVars      == <<tinput, tout, dspec, dout>>
oracleVars  == <<lastCall>>
stageVars   == <<ecall, tcall>>
netVars     == <<requests, auditLog, processEnv>>
toolVars    == <<toolCall, rcall>>
hostVars    == <<hostJSON>>
vars == <<rpc, rspec, rkey, rawResponse, extracted, transformed, result,
          calls, emitted, raised, nowMs, signLog, markets, blockTime, created,
          settleLog, spc, script, reach, sout, vinput, vreport,
          tinput, tout, dspec, dout, lastCall, ecall, tcall,
          requests, auditLog, processEnv, toolCall, rcall, hostJSON>>

None == [t |-> "none"]

-----------------------------------------------------------------------------
(* JavaScript values *)

Undefined == [t |-> "undefined"]
Null      == [t |-> "null"]
Str(s)    == [t |-> "string", v |-> s]
Num(n)    == [t |-> "number", fin |-> TRUE, v |-> n]
\* The non-finite numbers: v is the sign of the infinity, 0 for NaN.
NaN       == [t |-> "number", fin |-> FALSE, v |-> 0]
Infinity  == [t |-> "number", fin |-> FALSE, v |-> 1]
NegInfinity == [t |-> "number", fin |-> FALSE, v |-> -1]
Bool(b)   == [t |-> "boolean", v |-> b]
\* An object is the list of its own enumerable properties in insertion order,
\* the order Object.entries and JSON.stringify walk them in.
Obj(kv)   == [t |-> "object", kv |-> kv]

IsStr(x) == x.t = "string"
IsNum(x) == x.t = "number"
IsObj(x) == x.t = "object"
isNaN(x) == IsNum(x) /\ ~x.fin /\ x.v = 0

Keys(o) == {o.kv[i][1] : i \in 1..Len(o.kv)}

\* o.k : the value of property k, undefined when o has no such property
\* (or is not an object: a property read on a primitive finds nothing here).
Get(o, k) ==
    IF IsObj(o) /\ k \in Keys(o)
    THEN LET i == CHOOSE j \in 1..Len(o.kv) : o.kv[j][1] = k IN o.kv[i][2]
    ELSE Undefined

\* ToBoolean
Truthy(x) ==
    CASE x.t = "undefined" -> FALSE
      [] x.t = "null"      -> FALSE
      [] x.t = "boolean"   -> x.v
      [] x.t = "number"    -> x.v # 0
      [] x.t = "string"    -> Len(x.v) > 0
      [] OTHER             -> TRUE

\* typeof x === "object" (true of null, as in JavaScript)
TypeofObject(x) == x.t \in {"object", "null"}

-----------------------------------------------------------------------------
(* Numbers and their text *)

DigitChars == <<"0", "1", "2", "3", "4", "5", "6", "7", "8", "9">>
IsDigit(c) == \E d \in 1..10 : DigitChars[d] = c
DigitVal(c) == (CHOOSE d \in 1..10 : DigitChars[d] = c) - 1

RECURSIVE NatToStr(_)
NatToStr(n) ==
    IF n < 10 THEN <<DigitChars[n + 1]>>
    ELSE Append(NatToStr(n \div 10), DigitChars[(n % 10) + 1])

\* Number.prototype.toString / String(number)
NumToStr(x) ==
    IF ~x.fin
    THEN (IF x.v = 0 THEN <<"NaN">> ELSE IF x.v > 0 THEN <<"Infinity">> ELSE <<"-", "Infinity">>)
    ELSE IF x.v < 0 THEN <<"-">> \o NatToStr(-x.v) ELSE NatToStr(x.v)

RECURSIVE DigitsPrefix(_)
\* the longest prefix of s made of digits
DigitsPrefix(s) ==
    IF s = <<>> \/ ~IsDigit(Head(s)) THEN <<>>
    ELSE <<Head(s)>> \o DigitsPrefix(Tail(s))

RECURSIVE DigitsVal(_, _)
DigitsVal(s, acc) ==
    IF s = <<>> THEN acc ELSE DigitsVal(Tail(s), 10 * acc + DigitVal(Head(s)))

RECURSIVE TrimLeft(_)
TrimLeft(s) == IF s # <<>> /\ Head(s) = " " THEN TrimLeft(Tail(s)) ELSE s

\* parseFloat(s): skips leading white space, then reads the longest prefix that
\* is a decimal literal (optional sign, Infinity or digits); NaN when there is
\* none.  Whatever follows the literal is ignored.  (Integers only: the model's
\* strings hold no fraction or exponent.)
parseFloat(s) ==
    LET u    == TrimLeft(s)
        neg  == u # <<>> /\ Head(u) = "-"
        body == IF u # <<>> /\ Head(u) \in {"-", "+"} THEN Tail(u) ELSE u
        ds   == DigitsPrefix(body)
    IN  IF body # <<>> /\ Head(body) = "Infinity"
        THEN (IF neg THEN NegInfinity ELSE Infinity)
        ELSE IF ds = <<>> THEN NaN
        ELSE Num(IF neg THEN -DigitsVal(ds, 0) ELSE DigitsVal(ds, 0))

-----------------------------------------------------------------------------
(* JSON *)

\* the double-quote character
DQ == "''"

RECURSIVE JSONstringify(_)
RECURSIVE StringifyEntries(_)
\* JSON.stringify(x) with no indent: the properties of an object are written in
\* the object's own (insertion) order; a non-finite number is written null.
\* Properties whose value is undefined are skipped.
StringifyEntries(kv) ==
    IF kv = <<>> THEN <<>>
    ELSE LET rest == StringifyEntries(Tail(kv))
             e    == Head(kv)
         IN  IF e[2].t = "undefined" THEN rest
             ELSE <<DQ, e[1], DQ, ":">> \o JSONstringify(e[2])
                  \o (IF rest = <<>> THEN <<>> ELSE <<",">> \o rest)
JSONstringify(x) ==
    CASE x.t = "string"  -> <<DQ>> \o x.v \o <<DQ>>
      [] x.t = "number"  -> IF x.fin THEN NumToStr(x) ELSE <<"null">>
      [] x.t = "boolean" -> IF x.v THEN <<"true">> ELSE <<"false">>
      [] x.t = "null"    -> <<"null">>
      [] x.t = "object"  -> <<"{">> \o StringifyEntries(x.kv) \o <<"}">>
      [] OTHER           -> <<>>

\* String(x)
JSString(x) ==
    CASE x.t = "string"    -> x.v
      [] x.t = "number"    -> NumToStr(x)
      [] x.t = "boolean"   -> IF x.v THEN <<"true">> ELSE <<"false">>
      [] x.t = "null"      -> <<"null">>
      [] x.t = "undefined" -> <<"undefined">>
      [] OTHER             -> <<"[object Object]">>

\* The same value up to the order in which the properties of its objects
\* (at any depth) were inserted.
RECURSIVE SameFields(_, _)
SameFields(a, b) ==
    IF IsObj(a) /\ IsObj(b)
    THEN /\ Len(a.kv) = Len(b.kv)
         /\ Keys(a) = Keys(b)
         /\ \A k \in Keys(a) : SameFields(Get(a, k), Get(b, k))
    ELSE a = b

-----------------------------------------------------------------------------
(* Bytes, hashes and signatures *)

\* A byte string is a sequence of tokens: [ch |-> c] the UTF-8 bytes of the
\* string token c, [h |-> x] the 32 bytes of the hash x, [u |-> n, w |-> k] the
\* k-byte big-endian unsigned integer n.
toBytes(s) == IF s = <<>> THEN <<>> ELSE [i \in 1..Len(s) |-> [ch |-> s[i]]]

\* keccak256 is taken collision-free: a digest stands for its preimage.
keccak256(bytes) == [keccak |-> bytes]
ZeroBytes32 == [zero |-> TRUE]

\* privateKeyToAccount(key).address
ZeroAddress == [addr |-> "0"]
Address(key) == [addr |-> key]
ValidKey(key) == key # "invalid"

\* encodePacked(["bytes32","bytes32","bytes32","string","bool","uint64"], ...)
\* of viem, as sign.ts calls it.
encodePacked(marketId, specHash, rawHash, parsedValue, res, executedAt) ==
    <<[h |-> marketId], [h |-> specHash], [h |-> rawHash]>>
    \o toBytes(parsedValue)
    \o <<[u |-> IF res THEN 1 ELSE 0, w |-> 1], [u |-> executedAt, w |-> 8]>>

EthPrefix == "x19Ethereum Signed Message:"

\* viem hashMessage({raw}): keccak256(prefix ++ String(size(raw)) ++ raw)
hashMessage(raw32) ==
    keccak256(toBytes(<<EthPrefix>> \o NatToStr(32)) \o <<[h |-> raw32]>>)

\* account.signMessage: a 65-byte ECDSA signature (r, s, v) over the digest,
\* deterministic in (digest, key).
signMessage(raw32, key) ==
    [len |-> 65, signer |-> Address(key), digest |-> hashMessage(raw32)]

\* ecrecover(hash, v, r, s): the zero address when v is neither 27 nor 28 (the
\* precompile fails and returns nothing), the signer when the signature is over
\* this digest, and otherwise the address of some other key, which is nobody's.
\* signMessage yields v = 27 or 28, and a signature record without v has one.
NobodyAddress == [addr |-> "nobody"]
ecrecover(hash, sig) ==
    IF "v" \in DOMAIN sig /\ sig.v \notin {27, 28} THEN ZeroAddress
    ELSE IF sig.digest = hash THEN sig.signer
    ELSE NobodyAddress

-----------------------------------------------------------------------------
(* Hasher / signer: sign.ts *)

Threw(kind, msg) == [t |-> "throw", kind |-> kind, msg |-> msg]
IsThrow(x) == x.t = "throw"

\* Math.floor(Date.now() / 1000)
MsPerSecond == 1000
UnixSeconds(ms) == ms \div MsPerSecond

\* A signer that packs executedAt as a 32-byte word (uint256 for uint64).
SignerMessageWide(marketId, specHash, rawHash, parsedValue, res, executedAt) ==
    <<[h |-> marketId], [h |-> specHash], [h |-> rawHash]>>
    \o toBytes(parsedValue)
    \o <<[u |-> IF res THEN 1 ELSE 0, w |-> 1], [u |-> executedAt, w |-> 32]>>

\* The bytes whose hash is signed (sign.ts lines 18-23).
SignerMessage(marketId, specHash, rawHash, parsedValue, res, executedAt) ==
    encodePacked(marketId, specHash, rawHash, parsedValue, res, executedAt)

\* A signer whose signature also depends on the instant of the call (a random
\* or time-derived nonce).
SignatureWithNonce(messageHash, key, ms) ==
    [len |-> 65, signer |-> Address(key), digest |-> hashMessage(messageHash), nonce |-> ms]

\* What the signature of hashAndSign depends on besides the message hash and
\* the key: nothing (signMessage draws no randomness and reads no clock).
SignatureOf(messageHash, key, ms) == signMessage(messageHash, key)

\* The hash of the spec: keccak256(toBytes(JSON.stringify(spec))).
SpecHashOf(spec) == keccak256(toBytes(JSONstringify(spec)))

\* JSON.stringify(v) as the host has it: the native function, or the function
\* a script put in its place, which returns the text "0" (in double quotes)
HostStringify(v, host) == IF host = "native" THEN JSONstringify(v) ELSE <<DQ, "0", DQ>>

\* hashAndSign(spec, rawResponse, parsedValue, result, privateKey) called when
\* Date.now() = ms and the host's JSON.stringify is host.  rawResponse is the
\* body text; parsedValue a string.
hashAndSignIn(host, spec, raw, parsedValue, res, privateKey, ms) ==
    LET specHash    == keccak256(toBytes(HostStringify(spec, host)))
        rawHash     == keccak256(toBytes(raw))
        marketId    == keccak256(toBytes(Get(spec, "marketId").v))
        executedAt  == UnixSeconds(ms)
        messageHash == keccak256(SignerMessage(marketId, specHash, rawHash,
                                               parsedValue, res, executedAt))
    IN  IF ~ValidKey(privateKey)
        THEN Threw("sign", <<"invalid private key">>)
        ELSE [t |-> "payload",
              marketId    |-> marketId,
              specHash    |-> specHash,
              rawHash     |-> rawHash,
              parsedValue |-> parsedValue,
              result      |-> res,
              executedAt  |-> executedAt,
              signature   |-> SignatureOf(messageHash, privateKey, ms)]

\* hashAndSign in a process where no script has run
hashAndSign(spec, raw, parsedValue, res, privateKey, ms) ==
    hashAndSignIn("native", spec, raw, parsedValue, res, privateKey, ms)

-----------------------------------------------------------------------------
(* VoranOracle.sol *)

ZeroMarket == [specHash |-> ZeroBytes32, oracle |-> ZeroAddress,
               settlementWindowStart |-> 0, settlementWindowEnd |-> 0,
               settled |-> FALSE, result |-> FALSE]

\* markets[marketId]: a mapping reads the zero value where nothing was stored
Market(ms, marketId) == IF marketId \in DOMAIN ms THEN ms[marketId] ELSE ZeroMarket

\* abi.encodePacked(marketId, specHash, rawHash, parsedValue, result, executedAt)
\* with the parameter types of settle (bytes32 x3, string, bool, uint64).
VerifierMessage(marketId, specHash, rawHash, parsedValue, res, executedAt) ==
    <<[h |-> marketId], [h |-> specHash], [h |-> rawHash]>>
    \o toBytes(parsedValue)
    \o <<[u |-> IF res THEN 1 ELSE 0, w |-> 1], [u |-> executedAt, w |-> 8]>>

\* keccak256(abi.encodePacked("x19Ethereum Signed Message: 32", messageHash))
EthSignedHash(messageHash) ==
    keccak256(toBytes(<<EthPrefix, "3", "2">>) \o <<[h |-> messageHash]>>)

\* The outcome of createMarket(...) on the mapping ms: "ok" or the revert reason.
createMarketOutcome(ms, marketId, windowStart, windowEnd) ==
    IF Market(ms, marketId).oracle # ZeroAddress THEN "market exists"
    ELSE IF ~(windowEnd > windowStart) THEN "invalid window"
    ELSE "ok"

\* _recoverSigner requires a 65-byte signature
SigLength == 65

\* The outcome of settle(p.marketId, ..., p.signature) at block.timestamp = now.
settleOutcome(ms, p, now) ==
    LET m == Market(ms, p.marketId)
        messageHash == keccak256(VerifierMessage(p.marketId, p.specHash, p.rawHash,
                                                 p.parsedValue, p.result, p.executedAt))
        ethSignedHash == EthSignedHash(messageHash)
    IN  IF m.settled THEN "already settled"
        ELSE IF m.specHash # p.specHash THEN "spec mismatch"
        ELSE IF ~(now >= m.settlementWindowStart) THEN "too early"
        ELSE IF ~(now <= m.settlementWindowEnd) THEN "too late"
        ELSE IF p.signature.len # SigLength THEN "invalid signature length"
        ELSE IF ecrecover(ethSignedHash, p.signature) # m.oracle THEN "invalid signer"
        ELSE "ok"

-----------------------------------------------------------------------------
(* Script sandbox: script-sandbox.ts *)

DEFAULT_TIMEOUT_MS == 5000

\* The extraction code is a sequence of tokens.  Words the validator's
\* regular expressions look for are tokens of their own; a statement or a
\* function body whose inside does not matter lexically is one token, and the
\* operators below give what running it does.
\*   "@"                      a token no JavaScript program contains
\*   top-level statements:    TopThrowBoom, TopThrowTimedOut, TopThrowNull, TopLoop
\*   function bodies:         the Body* tokens
Contains(s, tok) == \E i \in 1..Len(s) : s[i] = tok

\* JavaScript Error objects: the constructor name and the message
Error(ctor, msg) == [t |-> "error", ctor |-> ctor, message |-> msg]

\* e.message?.includes("timed out")
MessageIncludesTimedOut(e) == e.t = "error" /\ Contains(e.message, "timed out")

\* `${e.message}`
MessageText(e) == IF e.t = "error" THEN e.message ELSE <<"undefined">>

\* The error vm.runInContext throws when the timeout option elapses.
VmTimeoutError ==
    Error("Error", <<"Script execution", "timed out", "after">>
                   \o NatToStr(DEFAULT_TIMEOUT_MS) \o <<"ms">>)

\* The global names of the context: the keys of SAFE_GLOBALS bound to the
\* host's own objects, over the built-ins every new context has of its own.
SAFE_GLOBALS == {"JSON", "Math", "String", "Number", "Array", "Object", "RegExp", "Date",
                 "parseInt", "parseFloat", "isNaN", "isFinite", "encodeURIComponent",
                 "decodeURIComponent", "undefined", "NaN", "Infinity"}
SafePrimitives == {"undefined", "NaN", "Infinity"}
SafeNamespaces == {"JSON", "Math"}
ContextBuiltins == {"Function", "eval", "globalThis", "Promise", "Symbol", "Error"}

\* What the host realm offers that a script must never hold.
DeniedCapabilities == {"host:process", "host:require", "host:fetch", "host:setTimeout",
                       "host:fs"}
\* The global names of the host realm that lead to them.
HostGlobalNames == {"process", "fetch", "setTimeout"}

\* An object reference is a string: "host:X" an object of the host realm,
\* "ctx:X" an object of the context's realm, "prim" a primitive value,
\* "ReferenceError" / "TypeError" the failure to produce one.
ResolveIdentifier(name) ==
    IF name \in SafePrimitives THEN "prim"
    ELSE IF name \in SAFE_GLOBALS THEN
        (IF name \in SafeNamespaces THEN "host:namespace" ELSE "host:function")
    ELSE IF name = "Function" THEN "ctx:Function"
    ELSE IF name \in {"globalThis", "this"} THEN "ctx:global"
    ELSE IF name \in ContextBuiltins THEN "ctx:builtin"
    ELSE "ReferenceError"

\* o.prop for the properties a script can follow out of what it holds.
GetProperty(o, prop) ==
    CASE o = "host:function"  /\ prop = "constructor" -> "host:Function"
      [] o = "host:namespace" /\ prop = "constructor" -> "host:function"
      [] o = "host:Function"  /\ prop = "constructor" -> "host:Function"
      [] o = "ctx:builtin"    /\ prop = "constructor" -> "ctx:Function"
      [] o = "ctx:Function"   /\ prop = "constructor" -> "ctx:Function"
      [] o = "ctx:global"     /\ prop = "constructor" -> "host:function"
      [] o = "ctx:global"     /\ prop \in SAFE_GLOBALS \ SafePrimitives
                                                      -> ResolveIdentifier(prop)
      [] o = "host:global"    /\ prop \in HostGlobalNames -> "host:" \o prop
      [] o = "host:process"   /\ prop = "getBuiltinModule" -> "host:require"
      [] o = "host:require"   /\ prop = "fs"          -> "host:fs"
      [] o \in {"ReferenceError", "TypeError"}        -> o
      [] o = "prim"                                   -> "TypeError"
      [] OTHER                                        -> "prim"

\* f("return <name>")(): the Function constructor of a realm compiles its
\* argument in that realm's global scope.
CallWithSource(f, name) ==
    CASE f = "host:Function" ->
            IF name = "this" THEN "host:global"
            ELSE IF name \in HostGlobalNames THEN "host:" \o name
            ELSE "ReferenceError"
      [] f = "ctx:Function" -> ResolveIdentifier(name)
      [] f \in {"ReferenceError", "TypeError"} -> f
      [] OTHER -> "TypeError"

\* An expression a script evaluates: an identifier followed by property reads
\* and calls of a Function constructor.
Ident(n)  == [op |-> "ident", arg |-> n]
Prop(p)   == [op |-> "prop", arg |-> p]
CallSrc(n) == [op |-> "call", arg |-> n]

ProbeStep(held, step) ==
    CASE step.op = "ident" -> ResolveIdentifier(step.arg)
      [] step.op = "prop"  -> GetProperty(held, step.arg)
      [] step.op = "call"  -> CallWithSource(held, step.arg)

-----------------------------------------------------------------------------
(* Extraction scripts and what running them does *)

\* Function bodies of extract(r)
BodyReturnRaw     == "{ return r }"
BodyReturnNumber  == "{ return 42 }"
BodyReturnScore   == "{ return {home: 2, away: 1} }"
BodyReturnNull    == "{ return null }"
BodyReturnNothing == "{ }"
BodyThrowBad      == "{ throw new Error('bad data') }"
BodyThrowTimedOut == "{ throw new Error('upstream timed out') }"
BodyThrowNull     == "{ throw null }"
BodyLoop          == "{ for (;;) {} }"
BodyToJSONLoop    == "{ return { toJSON() { for (;;) {} } } }"
BodyToJSONThrow   == "{ return { toJSON() { throw null } } }"
BodyUseProcess    == "{ return String(process.env.API_KEY) }"
BodyUseTimer      == "{ return String(setTimeout) }"
BodyUseRequire    == "{ return require('fs').readFileSync('/etc/passwd', 'utf8') }"
BodyCtxFunction   == "{ return String(Function('return process')()) }"
BodyHostFunction  == "{ return String(String.constructor('return process')()) }"
BodyThisEscape    == "{ return String(this.constructor.constructor('return this')().fetch) }"
BodyPatchJSON     == "{ JSON.stringify = function () { return '\"0\"' }; return r }"

Bodies == {BodyReturnRaw, BodyReturnNumber, BodyReturnScore, BodyReturnNull,
           BodyReturnNothing, BodyThrowBad, BodyThrowTimedOut, BodyThrowNull, BodyLoop,
           BodyToJSONLoop, BodyToJSONThrow, BodyUseProcess, BodyUseTimer, BodyUseRequire, BodyCtxFunction,
           BodyHostFunction, BodyThisEscape, BodyPatchJSON}

\* Top-level statements
TopThrowBoom     == "throw new Error('boom');"
TopThrowTimedOut == "throw new Error('request timed out');"
TopLoop          == "for (;;) {}"
TopUseFetch      == "fetch ('http://x');"
TopStatements    == {TopThrowBoom, TopThrowTimedOut, TopLoop, TopUseFetch}

\* The expression a statement or body evaluates to reach a capability, if any.
ProbeOf(tok) ==
    CASE tok = BodyUseProcess   -> <<Ident("process"), Prop("env")>>
      [] tok = BodyUseTimer     -> <<Ident("setTimeout")>>
      [] tok = BodyUseRequire   -> <<Ident("require")>>
      [] tok = BodyCtxFunction  -> <<Ident("Function"), CallSrc("process")>>
      [] tok = BodyHostFunction -> <<Ident("String"), Prop("constructor"), CallSrc("process")>>
      [] tok = BodyThisEscape   -> <<Ident("this"), Prop("constructor"), Prop("constructor"),
                                     CallSrc("this"), Prop("fetch")>>
      [] tok = TopUseFetch      -> <<Ident("fetch")>>
      [] OTHER                  -> <<>>

\* What running a statement or body does, apart from its probe: it returns a
\* value, throws a value, or never ends.  r is the argument of extract.
Effect(tok, r) ==
    CASE tok = BodyReturnRaw     -> [k |-> "return", v |-> Str(r)]
      [] tok = BodyPatchJSON     -> [k |-> "return", v |-> Str(r)]
      [] tok = BodyReturnNumber  -> [k |-> "return", v |-> Num(42)]
      [] tok = BodyReturnScore   -> [k |-> "return",
                                     v |-> Obj(<< <<"home", Num(2)>>, <<"away", Num(1)>> >>)]
      [] tok = BodyReturnNull    -> [k |-> "return", v |-> Null]
      [] tok = BodyReturnNothing -> [k |-> "return", v |-> Undefined]
      [] tok = BodyThrowBad      -> [k |-> "throw", v |-> Error("Error", <<"bad data">>)]
      [] tok = BodyThrowTimedOut -> [k |-> "throw", v |-> Error("Error", <<"upstream", "timed out">>)]
      [] tok = BodyThrowNull     -> [k |-> "throw", v |-> Null]
      [] tok = BodyLoop          -> [k |-> "loop", v |-> Undefined]
      [] tok = BodyToJSONLoop    -> [k |-> "return", v |-> [t |-> "object", kv |-> <<>>, toJSON |-> "loop"]]
      [] tok = BodyToJSONThrow   -> [k |-> "return", v |-> [t |-> "object", kv |-> <<>>, toJSON |-> "throw null"]]
      [] tok = TopThrowBoom      -> [k |-> "throw", v |-> Error("Error", <<"boom">>)]
      [] tok = TopThrowTimedOut  -> [k |-> "throw", v |-> Error("Error", <<"request", "timed out">>)]
      [] tok = TopLoop           -> [k |-> "loop", v |-> Undefined]
      [] OTHER                   -> [k |-> "return", v |-> Str(<<"[object]">>)]

\* new Function(code) / the parse of vm.runInContext: the code is a program
SyntaxOK(code) == ~Contains(code, "@")

\* The first top-level statement of the code that does something, if any.
TopStatementOf(code) ==
    IF \E i \in 1..Len(code) : code[i] \in TopStatements
    THEN code[CHOOSE i \in 1..Len(code) :
                 /\ code[i] \in TopStatements
                 /\ \A j \in 1..(i-1) : code[j] \notin TopStatements]
    ELSE "none"

\* The word before "extract" in the declaration of extract, "none" without one.
DeclKind(code) ==
    IF \E i \in 2..Len(code) : code[i] = "extract" /\ code[i-1] \in {"function", "var", "const", "let"}
    THEN code[(CHOOSE i \in 2..Len(code) :
                 code[i] = "extract" /\ code[i-1] \in {"function", "var", "const", "let"}) - 1]
    ELSE "none"

BodyOf(code) ==
    IF \E i \in 1..Len(code) : code[i] \in Bodies
    THEN code[CHOOSE i \in 1..Len(code) : code[i] \in Bodies]
    ELSE "none"

\* typeof sandbox.extract === "function" once the code has run: a function
\* declaration or a var becomes a property of the global object; a const or a
\* let binding does not.
SandboxHasExtract(code) == DeclKind(code) \in {"function", "var"} /\ BodyOf(code) # "none"

FunctionDecl(body) == <<"function", "extract", "(r)", body>>
VarDecl(kind, body) == <<kind, "extract", "=", "function", "(r)", body>>

\* The scripts the sandbox is run on
Scripts ==
    {FunctionDecl(b) : b \in Bodies}
    \cup {VarDecl(k, BodyReturnRaw) : k \in {"var", "const", "let"}}
    \cup {<<st>> \o FunctionDecl(BodyReturnRaw) : st \in TopStatements}
    \cup {<<"function", "extract", "(r)", "@">>, <<"var", "x", "=", "1;">>}

SandboxRaws == {<<"1", "0", "5">>, <<"{", "}">>}

-----------------------------------------------------------------------------
(* executeScript *)

\* The catch block of the definition phase (lines 36-41): what it throws for
\* the value e that vm.runInContext threw.
CatchDefine(e) ==
    IF e.t \in {"null", "undefined"}
    THEN Error("TypeError", <<"Cannot read properties of">> \o JSString(e))
    ELSE IF (e.t = "error" /\ e.ctor = "ERR_SCRIPT_EXECUTION_TIMEOUT") \/ MessageIncludesTimedOut(e)
    THEN Error("Error", <<"Script execution timed out">>)
    ELSE Error("Error", <<"Script compilation/execution error:">> \o MessageText(e))

\* The catch block of the call phase (lines 54-59).
CatchCall(e) ==
    IF e.t \in {"null", "undefined"}
    THEN Error("TypeError", <<"Cannot read properties of">> \o JSString(e))
    ELSE IF MessageIncludesTimedOut(e)
    THEN Error("Error", <<"Script execution timed out">>)
    ELSE Error("Error", <<"extract() threw an error:">> \o MessageText(e))

NoExtractError == Error("Error", <<"Script must define an extract() function">>)
BadReturnError(v) == Error("Error", <<"extract() must return a string, got">> \o JSString(v))

\* What the caller of executeScript observes.  cause is what went wrong in
\* fact: "compile", "timeout", "runtime", "nodef" or "badreturn".
Thrown(e, cause) == [t |-> "throw", e |-> e, cause |-> cause]
Returned(v)      == [t |-> "return", v |-> v]

\* The error a failed identifier or property reference raises in the script
ReferenceFailure(ref) == Error(ref, <<"is not defined">>)


ReferenceFailed(r) == r # <<>> /\ r[Len(r)] \in {"ReferenceError", "TypeError"}
Held(r) == IF r = <<>> THEN "prim" ELSE r[Len(r)]

\* executeScript(rawResponse, code) is called (line 25): the context is created
\* and vm.runInContext(code) starts.
ExecuteScriptCall ==
    /\ spc \in {"idle", "returned", "threw"}
    /\ \E code \in Scripts, raw \in SandboxRaws : script' = [code |-> code, raw |-> raw]
    /\ spc' = "define"
    /\ reach' = <<>>
    /\ sout' = None
    /\ UNCHANGED <<resolveVars, signVars, chainVars, validVars, aiVars, oracleVars, stageVars, netVars, toolVars, hostVars>>

\* The running code evaluates the next step of an expression.
ProbeAction(phase, tok) ==
    /\ spc = phase
    /\ SyntaxOK(script.code)
    /\ Len(reach) < Len(ProbeOf(tok))
    /\ ~ReferenceFailed(reach)
    /\ reach' = Append(reach, ProbeStep(Held(reach), ProbeOf(tok)[Len(reach) + 1]))
    /\ UNCHANGED <<spc, script, sout, resolveVars, signVars, chainVars, validVars, aiVars, oracleVars, stageVars, netVars, toolVars, hostVars>>

ProbeDone(tok) == Len(reach) = Len(ProbeOf(tok)) /\ ~ReferenceFailed(reach)

SandboxThrow(e, cause) ==
    /\ spc' = "threw"
    /\ sout' = Thrown(e, cause)
    /\ UNCHANGED <<script, reach, resolveVars, signVars, chainVars, validVars, aiVars, oracleVars, stageVars, netVars, toolVars, hostVars>>

\* Definition phase (lines 31-41)
DefineProbe == ProbeAction("define", TopStatementOf(script.code))

\* the code does not parse: vm.runInContext throws a SyntaxError
DefineCompileError ==
    /\ spc = "define"
    /\ ~SyntaxOK(script.code)
    /\ SandboxThrow(CatchDefine(Error("SyntaxError", <<"Invalid or unexpected token">>)), "compile")

\* the top-level code throws
DefineThrow ==
    /\ spc = "define"
    /\ SyntaxOK(script.code)
    /\ LET tok == TopStatementOf(script.code)
       IN  \/ /\ ReferenceFailed(reach)
              /\ SandboxThrow(CatchDefine(ReferenceFailure(Held(reach))), "runtime")
           \/ /\ ProbeDone(tok)
              /\ Effect(tok, script.raw).k = "throw"
              /\ SandboxThrow(CatchDefine(Effect(tok, script.raw).v), "runtime")

\* the top-level code is still running when the timeout elapses
DefineTimeout ==
    /\ spc = "define"
    /\ SyntaxOK(script.code)
    /\ LET tok == TopStatementOf(script.code)
       IN  ProbeDone(tok) /\ Effect(tok, script.raw).k = "loop"
    /\ SandboxThrow(CatchDefine(VmTimeoutError), "timeout")

\* the top-level code ends: lines 43-45, then the call starts (line 50)
DefineDone ==
    /\ spc = "define"
    /\ SyntaxOK(script.code)
    /\ LET tok == TopStatementOf(script.code)
       IN  tok = "none" \/ (ProbeDone(tok) /\ Effect(tok, script.raw).k = "return")
    /\ IF SandboxHasExtract(script.code)
       THEN /\ spc' = "call"
            /\ reach' = <<>>
            /\ UNCHANGED <<script, sout, resolveVars, signVars, chainVars, validVars, aiVars, oracleVars, stageVars, netVars, toolVars, hostVars>>
       ELSE SandboxThrow(NoExtractError, "nodef")

\* The argument extract is called with: the value of the literal that
\* JSON.stringify(rawResponse) wrote into the source of the call (line 50)
CallArgument(raw, host) == IF host = "native" THEN raw ELSE <<"0">>

\* Call phase (lines 48-59)
CallProbe == ProbeAction("call", BodyOf(script.code))

CallThrow ==
    /\ spc = "call"
    /\ LET tok == BodyOf(script.code)
       IN  \/ /\ ReferenceFailed(reach)
              /\ SandboxThrow(CatchCall(ReferenceFailure(Held(reach))), "runtime")
           \/ /\ ProbeDone(tok)
              /\ Effect(tok, CallArgument(script.raw, hostJSON)).k = "throw"
              /\ SandboxThrow(CatchCall(Effect(tok, CallArgument(script.raw, hostJSON)).v), "runtime")

CallTimeout ==
    /\ spc = "call"
    /\ LET tok == BodyOf(script.code)
       IN  ProbeDone(tok) /\ Effect(tok, CallArgument(script.raw, hostJSON)).k = "loop"
    /\ SandboxThrow(CatchCall(VmTimeoutError), "timeout")

\* extract returns: result holds its value (line 50)
CallReturn ==
    /\ spc = "call"
    /\ LET tok == BodyOf(script.code)
       IN  /\ ProbeDone(tok)
           /\ Effect(tok, CallArgument(script.raw, hostJSON)).k = "return"
           /\ sout' = [t |-> "result", v |-> Effect(tok, CallArgument(script.raw, hostJSON)).v]
           /\ hostJSON' = IF tok = BodyPatchJSON THEN "patched" ELSE hostJSON
    /\ spc' = "convert"
    /\ UNCHANGED <<script, reach, resolveVars, signVars, chainVars, validVars, aiVars, oracleVars, stageVars, netVars, toolVars>>

\* JSON.stringify(result) of line 66 returns only if the toJSON of result does:
\* it runs in the host, outside vm.runInContext and its timeout.
ToJSONOf(v) == IF "toJSON" \in DOMAIN v THEN v.toJSON ELSE "none"
StringifyReturns(v) == ToJSONOf(v) = "none"

\* JSON.stringify(result) calls result.toJSON(), which throws null: line 66 is
\* inside no try, so executeScript throws that value as it is
StringifyThrows ==
    /\ spc = "convert"
    /\ hostJSON = "native"
    /\ IsObj(sout.v) /\ ToJSONOf(sout.v) = "throw null"
    /\ SandboxThrow(Null, "runtime")

\* JSON.stringify(result) calls result.toJSON(), whose for (;;) {} starts
StringifyCallsToJSON ==
    /\ spc = "convert"
    /\ hostJSON = "native"
    /\ IsObj(sout.v) /\ ToJSONOf(sout.v) = "loop"
    /\ spc' = "toJSON:test"
    /\ UNCHANGED <<script, reach, sout, resolveVars, signVars, chainVars, validVars, aiVars, oracleVars, stageVars, netVars, toolVars, hostVars>>

\* one turn of that loop: the empty test holds, the empty body runs
ToJSONLoopStep ==
    /\ spc \in {"toJSON:test", "toJSON:body"}
    /\ spc' = IF spc = "toJSON:test" THEN "toJSON:body" ELSE "toJSON:test"
    /\ UNCHANGED <<script, reach, sout, resolveVars, signVars, chainVars, validVars, aiVars, oracleVars, stageVars, netVars, toolVars, hostVars>>

\* Lines 61-69: the result is checked and converted to a string.
ConvertResult ==
    /\ spc = "convert"
    /\ LET v == sout.v
       IN  IF v.t \in {"undefined", "null"}
           THEN SandboxThrow(BadReturnError(v), "badreturn")
           ELSE /\ (IsObj(v) /\ hostJSON = "native") => StringifyReturns(v)
                /\ spc' = "returned"
                /\ sout' = Returned(IF IsObj(v) THEN HostStringify(v, hostJSON)
                                    ELSE JSString(v))
                /\ UNCHANGED <<script, reach, resolveVars, signVars, chainVars, validVars, aiVars, oracleVars, stageVars, netVars, toolVars, hostVars>>

-----------------------------------------------------------------------------
(* Extract, transform, evaluate: extract.ts, transform.ts, evaluate.ts *)

AllDigits(s) == s # <<>> /\ \A i \in 1..Len(s) : IsDigit(s[i])

\* The JSON documents of the model, besides numbers and strings.
JsonDocs ==
    LET amount(v) == Obj(<< <<"data", Obj(<< <<"amount", v>> >>)>> >>)
        score     == Obj(<< <<"home", Num(2)>>, <<"away", Num(1)>> >>)
    IN  {amount(Str(<<"1", "0", "5">>)), amount(Num(7)), amount(Str(<<"n", "/", "a">>)),
         amount(score), score, Obj(<< <<"data", Obj(<<>>)>> >>), Null, Bool(TRUE)}

\* Documents in which a path with a wildcard selects several values.
MatchDocs ==
    LET prices(kv) == Obj(<< <<"prices", Obj(kv)>> >>)
        score      == Obj(<< <<"home", Num(2)>>, <<"away", Num(1)>> >>)
    IN  {prices(<< <<"a", Num(1)>>, <<"b", Num(2)>>, <<"c", Num(3)>> >>),
         prices(<< <<"a", Num(1)>>, <<"b", Num(9)>>, <<"c", Str(<<"x">>)>> >>),
         prices(<< <<"a", Num(3)>>, <<"b", Num(2)>>, <<"c", Num(1)>> >>),
         prices(<< <<"a", score>>, <<"b", Num(2)>> >>),
         prices(<< <<"a", Str(<<"1", "0", "5">>)>>, <<"b", Num(7)>> >>),
         prices(<< <<"a", Null>>, <<"b", Num(1)>> >>),
         prices(<< <<"a", Bool(TRUE)>>, <<"b", Bool(FALSE)>> >>),
         prices(<< <<"a", Num(4)>> >>),
         prices(<<>>)}

\* Score objects, well formed and not.
ScoreDocs ==
    LET score(home, away) == Obj(<< <<"home", home>>, <<"away", away>> >>)
    IN  {score(Num(2), Num(1)), score(Num(1), Num(2)), score(Num(0), Num(0)),
         score(Num(-3), Num(4)), score(Str(<<"2">>), Num(1)), score(Str(<<"x">>), Num(1)),
         score(Num(2), Null), score(Num(2), Obj(<<>>)),
         score(Null, Null), score(Str(<<>>), Num(1)), score(Bool(TRUE), Num(1)),
         Obj(<< <<"home", Num(2)>> >>),
         Obj(<< <<"away", Num(1)>>, <<"home", Num(2)>> >>)}

ParsedDocs == JsonDocs \cup MatchDocs \cup ScoreDocs

\* JSON.parse(text): the value whose JSON text this is, or a SyntaxError.
JSONparse(text) ==
    IF AllDigits(text) THEN Num(DigitsVal(text, 0))
    ELSE IF Len(text) >= 2 /\ Head(text) = "-" /\ AllDigits(Tail(text))
    THEN Num(-DigitsVal(Tail(text), 0))
    ELSE IF /\ Len(text) >= 2 /\ Head(text) = DQ /\ text[Len(text)] = DQ
            /\ \A i \in 2..(Len(text) - 1) : text[i] # DQ
    THEN Str(SubSeq(text, 2, Len(text) - 1))
    ELSE IF \E d \in ParsedDocs : JSONstringify(d) = text
    THEN CHOOSE d \in ParsedDocs : JSONstringify(d) = text
    ELSE Threw("extract", <<"Unexpected token in JSON">>)

RECURSIVE JSONPath(_, _)
\* JSONPath({path, json}) for a path of child steps: the list of the values the
\* path selects, in document order.  segs is the path after "$"; "*" selects
\* every property value.
JSONPath(segs, nodes) ==
    IF segs = <<>> THEN nodes
    ELSE LET children(n) ==
                 IF ~IsObj(n) THEN <<>>
                 ELSE IF Head(segs) = "*" THEN [i \in 1..Len(n.kv) |-> n.kv[i][2]]
                 ELSE IF Head(segs) \in Keys(n) THEN <<Get(n, Head(segs))>>
                 ELSE <<>>
             next == IF nodes = <<>> THEN <<>>
                     ELSE children(Head(nodes)) \o
                          (IF Len(nodes) > 1 THEN
                              LET rest == JSONPath(<<Head(segs)>>, Tail(nodes)) IN rest
                           ELSE <<>>)
         IN  JSONPath(Tail(segs), next)

\* An extraction that keeps the last match
LastMatch(results) == results[Len(results)]

\* results[0] (line 18)
FirstMatch(results) == results[1]

\* extractValue for a jsonpath extraction (extract.ts lines 11-19)
extractJsonPath(raw, path) ==
    LET data == JSONparse(raw)
    IN  IF IsThrow(data) THEN data
        ELSE LET results == JSONPath(Tail(path), <<data>>)
             IN  IF Len(results) = 0
                 THEN Threw("extract", <<"JSONPath returned no results">>)
                 ELSE LET value == FirstMatch(results)
                      IN  Str(IF TypeofObject(value) THEN JSONstringify(value)
                              ELSE JSString(value))

\* Number(x)
JSNumber(x) ==
    CASE x.t = "number"    -> x
      [] x.t = "null"      -> Num(0)
      [] x.t = "boolean"   -> Num(IF x.v THEN 1 ELSE 0)
      [] x.t = "string"    -> IF x.v = <<>> THEN Num(0)
                              ELSE IF AllDigits(x.v) THEN Num(DigitsVal(x.v, 0))
                              ELSE IF Len(x.v) >= 2 /\ Head(x.v) = "-" /\ AllDigits(Tail(x.v))
                              THEN Num(-DigitsVal(Tail(x.v), 0))
                              ELSE NaN
      [] OTHER             -> NaN

\* A difference taken the other way round
NumSubSwapped(a, b) == IF a.fin /\ b.fin THEN Num(b.v - a.v) ELSE NaN

\* a + b and a - b on numbers that are finite or NaN
NumAdd(a, b) == IF a.fin /\ b.fin THEN Num(a.v + b.v) ELSE NaN
NumSub(a, b) == IF a.fin /\ b.fin THEN Num(a.v - b.v) ELSE NaN

\* parseScore (transform.ts)
parseScore(extractedStr) ==
    LET obj == JSONparse(extractedStr)
    IN  IF IsThrow(obj) THEN Threw("transform", <<"Cannot parse score object">>)
        ELSE IF obj.t = "null"
        THEN Threw("transform", <<"Cannot read properties of null">>)
        ELSE LET home == JSNumber(Get(obj, "home"))
                 away == JSNumber(Get(obj, "away"))
             IN  IF isNaN(home) \/ isNaN(away)
                 THEN Threw("transform", <<"Invalid score values">>)
                 ELSE [t |-> "score", home |-> home, away |-> away]

\* transformValue(extracted, transform)
transformValue(extractedStr, transform) ==
    LET type == Get(transform, "type")
    IN  IF type = Str(<<"decimal">>)
        THEN LET num == parseFloat(extractedStr)
             IN  IF isNaN(num) THEN Threw("transform", <<"Cannot parse as decimal">>)
                 ELSE Str(NumToStr(num))
        ELSE IF type \in {Str(<<"score_diff">>), Str(<<"score_sum">>)}
        THEN LET score == parseScore(extractedStr)
             IN  IF IsThrow(score) THEN score
                 ELSE Str(NumToStr(IF type = Str(<<"score_diff">>)
                                   THEN NumSub(score.home, score.away)
                                   ELSE NumAdd(score.home, score.away)))
        ELSE Threw("transform", <<"Unknown transform type">>)

\* a > b, a < b, a === b on numbers: every comparison with NaN is false
\* A comparison that admits equal operands
NumLessOrEqual(a, b) == ~isNaN(a) /\ ~isNaN(b) /\ (a = b \/ (a.fin /\ b.fin /\ a.v < b.v))

NumLess(a, b) ==
    IF isNaN(a) \/ isNaN(b) THEN FALSE
    ELSE IF a.fin /\ b.fin THEN a.v < b.v
    ELSE IF a.fin THEN b.v > 0
    ELSE IF b.fin THEN a.v < 0
    ELSE a.v < b.v
NumEquals(a, b) == ~isNaN(a) /\ ~isNaN(b) /\ a = b

\* evaluateRule(parsedValue, rule)
evaluateRule(parsedValue, rule) ==
    LET value == parseFloat(parsedValue)
        type  == Get(rule, "type")
        bound == Get(rule, "value")
    IN  CASE type = Str(<<"greater_than">>) -> Bool(NumLess(bound, value))
          [] type = Str(<<"less_than">>)    -> Bool(NumLess(value, bound))
          [] type = Str(<<"equals">>)       -> Bool(NumEquals(value, bound))
          [] OTHER -> Threw("evaluate", <<"Unknown rule type">>)

-----------------------------------------------------------------------------
(* Inputs of the signer and of the chain scenario *)

HttpSource == Obj(<< <<"type", Str(<<"http">>)>>, <<"method", Str(<<"GET">>)>>,
                     <<"url", Str(<<"https:", "//api.example/price">>)>> >>)
PathAmount == Str(<<"$", "data", "amount">>)
RuleGt100  == Obj(<< <<"type", Str(<<"greater_than">>)>>, <<"value", Num(100)>> >>)

\* A spec as JSON.parse of its file yields it: the keys in file order.
SpecA == Obj(<< <<"marketId", Str(<<"btc-100k">>)>>,
                <<"source", HttpSource>>,
                <<"extraction", Obj(<< <<"type", Str(<<"jsonpath">>)>>, <<"path", PathAmount>> >>)>>,
                <<"transform", Obj(<< <<"type", Str(<<"decimal">>)>> >>)>>,
                <<"rule", RuleGt100>> >>)
\* SpecA with the top-level keys written in another order
SpecAReordered == Obj(<< SpecA.kv[5], SpecA.kv[1], SpecA.kv[2], SpecA.kv[3], SpecA.kv[4] >>)
\* SpecA with the keys of the nested rule object written in another order
SpecANested == Obj(<< SpecA.kv[1], SpecA.kv[2], SpecA.kv[3], SpecA.kv[4],
                      <<"rule", Obj(<< RuleGt100.kv[2], RuleGt100.kv[1] >>)>> >>)
\* another market
SpecB == Obj(<< <<"marketId", Str(<<"eth-5k">>)>>, SpecA.kv[2], SpecA.kv[3], SpecA.kv[4],
                <<"rule", Obj(<< <<"type", Str(<<"less_than">>)>>, <<"value", Num(7)>> >>)>> >>)

SignSpecs == {SpecA, SpecAReordered, SpecANested, SpecB}
\* the spec files of the chain scenario
ChainSpecs == {SpecA, SpecAReordered, SpecB}
\* (rawResponse, parsedValue, result) as the earlier stages hand them over
SignCases == {[raw |-> <<"{", DQ, "amount", DQ, ":", "1", "0", "5", "}">>,
               parsedValue |-> <<"1", "0", "5">>, result |-> TRUE],
              [raw |-> <<"{", DQ, "amount", DQ, ":", "7", "}">>,
               parsedValue |-> <<"7">>, result |-> FALSE]}
Keys2 == {"k1", "k2"}
PrivateKeys == Keys2 \cup {"invalid"}

\* Host clock: Date.now() starts here and advances by one of TickStepsMs.
ClockStartMs == 100000
TickStepsMs == {300, 900}
MaxClockAdvanceMs == 1500

Tick ==
    /\ \E d \in TickStepsMs :
         /\ nowMs + d <= ClockStartMs + MaxClockAdvanceMs
         /\ nowMs' = nowMs + d
    /\ UNCHANGED <<resolveVars, signLog, chainVars, sandboxVars, validVars, aiVars, oracleVars, stageVars, netVars, toolVars, hostVars>>

SignEntry(spec, c, key, ms) ==
    [spec |-> spec, raw |-> c.raw, parsedValue |-> c.parsedValue, result |-> c.result,
     key |-> key, out |-> hashAndSign(spec, c.raw, c.parsedValue, c.result, key, ms)]

\* One call of hashAndSign; signLog keeps the last two calls.
HashAndSignCall ==
    /\ \E spec \in SignSpecs, c \in SignCases, key \in PrivateKeys :
         LET e == SignEntry(spec, c, key, nowMs)
         IN  signLog' = IF Len(signLog) < 2 THEN Append(signLog, e)
                        ELSE <<signLog[2], e>>
    /\ UNCHANGED <<resolveVars, nowMs, chainVars, sandboxVars, validVars, aiVars, oracleVars, stageVars, netVars, toolVars, hostVars>>

\* hashAndSign called in the process that ran the scripts, between two calls
\* of executeScript; signLog keeps this call
HashAndSignInProcess ==
    /\ spc \in {"idle", "returned", "threw"}
    /\ \E spec \in {SpecA, SpecB}, c \in SignCases :
         signLog' = <<[spec |-> spec, raw |-> c.raw, parsedValue |-> c.parsedValue,
                       result |-> c.result, key |-> "k1",
                       out |-> hashAndSignIn(hostJSON, spec, c.raw, c.parsedValue, c.result,
                                             "k1", nowMs)]>>
    /\ UNCHANGED <<resolveVars, nowMs, chainVars, sandboxVars, validVars, aiVars, oracleVars,
                   stageVars, netVars, toolVars, hostVars>>

-----------------------------------------------------------------------------
(* The chain scenario: create-market, one resolver run, settle-market *)

\* create-market: the window is [now - 60, now + 3600]
WindowLeadS == 60
WindowLengthS == 3600

\* block.timestamp takes increasing values among these (around the two ends
\* of a window created at ClockStartMs)
BlockTimes == {39, 40, 3700, 3701}

ChainTick ==
    /\ \E ts \in BlockTimes : ts > blockTime /\ blockTime' = ts
    /\ UNCHANGED <<resolveVars, signVars, markets, created, settleLog, sandboxVars, validVars, aiVars, oracleVars, stageVars, netVars, toolVars, hostVars>>

\* createMarket(marketId, specHash, oracle, windowStart, windowEnd): the state
\* after a call that does not revert
createMarket(ms, marketId, specHash, oracle, windowStart, windowEnd) ==
    [id \in DOMAIN ms \cup {marketId} |->
        IF id = marketId
        THEN [specHash |-> specHash, oracle |-> oracle,
              settlementWindowStart |-> windowStart, settlementWindowEnd |-> windowEnd,
              settled |-> FALSE, result |-> FALSE]
        ELSE ms[id]]

\* The create-market script run on a spec file with the oracle key.
CreateMarketCli ==
    /\ \E spec \in ChainSpecs, key \in Keys2 :
         LET marketId    == keccak256(toBytes(Get(spec, "marketId").v))
             specHash    == SpecHashOf(spec)
             now         == UnixSeconds(nowMs)
             windowStart == now - WindowLeadS
             windowEnd   == now + WindowLengthS
         IN  /\ createMarketOutcome(markets, marketId, windowStart, windowEnd) = "ok"
             /\ markets' = createMarket(markets, marketId, specHash, Address(key),
                                        windowStart, windowEnd)
             /\ created' = [id \in DOMAIN created \cup {marketId} |->
                               IF id = marketId THEN [spec |-> spec, key |-> key]
                               ELSE created[id]]
    /\ UNCHANGED <<resolveVars, signVars, blockTime, settleLog, sandboxVars, validVars, aiVars, oracleVars, stageVars, netVars, toolVars, hostVars>>

\* A resolver run of the chain scenario: its payload is written to the payload
\* file, which settle-market reads (the last entry of signLog).
MaxResolverRuns == 1

ResolverRun ==
    /\ Len(signLog) < MaxResolverRuns
    /\ \E spec \in ChainSpecs, c \in SignCases, key \in Keys2 :
         signLog' = Append(signLog, SignEntry(spec, c, key, nowMs))
    /\ UNCHANGED <<resolveVars, nowMs, chainVars, sandboxVars, validVars, aiVars, oracleVars, stageVars, netVars, toolVars, hostVars>>

\* settle(...): the state after a call that does not revert
settle(ms, p) == [ms EXCEPT ![p.marketId].settled = TRUE, ![p.marketId].result = p.result]

\* The settle-market script run on the payload file: it submits the payload's
\* fields to settle.  settleLog records the call: whether the market had been
\* created from the spec and key the payload was made with, whether it was
\* unsettled, whether the block time was inside its window, and the outcome.
SettleCli ==
    /\ signLog # <<>>
    /\ LET e   == signLog[Len(signLog)]
           p   == e.out
       IN  /\ ~IsThrow(p)
           /\ LET m   == Market(markets, p.marketId)
                  out == settleOutcome(markets, p, blockTime)
              IN  /\ settleLog' =
                        [t |-> "settle",
                         sameSpec |-> /\ p.marketId \in DOMAIN created
                                      /\ created[p.marketId].spec = e.spec,
                         sameKey  |-> /\ p.marketId \in DOMAIN created
                                      /\ created[p.marketId].key = e.key,
                         unsettled |-> ~m.settled,
                         inWindow |-> /\ blockTime >= m.settlementWindowStart
                                      /\ blockTime <= m.settlementWindowEnd,
                         outcome  |-> out]
                  /\ markets' = IF out = "ok" THEN settle(markets, p) ELSE markets
    /\ UNCHANGED <<resolveVars, signVars, blockTime, created, sandboxVars, validVars, aiVars, oracleVars, stageVars, netVars, toolVars, hostVars>>

-----------------------------------------------------------------------------
(* resolve: fetch, extract, transform, evaluate, sign *)

\* The stages in the order resolve calls them
StageOrder == <<"fetchSource", "extractValue", "transformValue", "evaluateRule", "hashAndSign">>

\* Where resolve is after the stage at position pos failed, under a change of
\* the code that catches the error and goes on with the next stage
OnFailureContinue(pos) == IF pos = "sign" THEN "returned" ELSE "next"

\* ... and under a change of the code that calls the failed stage again
OnFailureRetry(pos) == "again"

\* Where resolve is after the stage at position pos threw: nothing in resolve
\* catches, so the error leaves resolve and no later statement runs.
OnFailure(pos) == "threw"

\* The position after a stage that ended with out
AfterStage(pos, out, next) ==
    IF ~IsThrow(out) THEN next
    ELSE CASE OnFailure(pos) = "next"  -> next
           [] OnFailure(pos) = "again" -> pos
           [] OTHER                    -> OnFailure(pos)

\* new URL(url) accepts the url: it starts with a scheme
UrlParses(url) == Len(url) >= 2 /\ url[1] \in {"http:", "https:", "ftp:"}

\* response.ok
ResponseOk(status) == status >= 200 /\ status <= 299

\* What the network does with one request: it fails, or a response arrives.
FetchBodies == {JSONstringify(d) : d \in JsonDocs} \cup {<<"<html>">>}
FetchOutcomes ==
    {[k |-> "reject", status |-> 0, body |-> <<>>]}
    \cup {[k |-> "response", status |-> 200, body |-> b] : b \in FetchBodies}
    \cup {[k |-> "response", status |-> 503, body |-> <<"unavailable">>]}

\* A resolver that takes every variable as set
EnvMissingNever(envVal) == FALSE

\* !envVal: the variable is unset or empty
EnvMissing(envVal) == envVal.t = "undefined" \/ envVal = Str(<<>>)

\* value.match(/^\$env:(.+)$/): the text "$env:" is one token of a header value
EnvMatch(value) == Len(value) >= 2 /\ value[1] = "$env:"
\* envMatch[1]
EnvVarOf(value) == value[2]

RECURSIVE ResolveEntries(_, _, _)
\* the loop of resolveHeaders over the entries kv, resolved collecting the result
ResolveEntries(kv, resolved, penv) ==
    IF kv = <<>> THEN Obj(resolved)
    ELSE LET key   == Head(kv)[1]
             value == Head(kv)[2]
         IN  IF ~IsStr(value)
             THEN Threw("fetch", <<"value.match is not a function">>)
             ELSE IF EnvMatch(value.v)
             THEN LET envVal == Get(penv, EnvVarOf(value.v))
                  IN  IF EnvMissing(envVal)
                      THEN Threw("fetch", <<"Environment variable", EnvVarOf(value.v),
                                            "required by header", key, "is not set">>)
                      ELSE ResolveEntries(Tail(kv), Append(resolved, <<key, envVal>>), penv)
             ELSE ResolveEntries(Tail(kv), Append(resolved, <<key, value>>), penv)

\* resolveHeaders(headers) under the process environment penv
resolveHeaders(headers, penv) ==
    IF ~IsObj(headers) THEN Undefined ELSE ResolveEntries(headers.kv, <<>>, penv)

MASK == Str(<<"****">>)

\* key.toLowerCase().includes(word), for the header names of the model
KeyIncludes(key, word) ==
    CASE key = "Authorization" -> word = "auth"
      [] key = "X-Api-Key"     -> word = "key"
      [] key = "X-Auth-Token"  -> word \in {"auth", "token"}
      [] OTHER                 -> FALSE

\* rawHeaders?.[key]?.startsWith("$env:")
StartsWithEnv(rawHeaders, key) ==
    /\ IsObj(rawHeaders)
    /\ IsStr(Get(rawHeaders, key))
    /\ Get(rawHeaders, key).v # <<>>
    /\ Get(rawHeaders, key).v[1] = "$env:"

\* maskHeaders(headers, rawHeaders) (log.ts lines 19-32)
maskHeaders(headers, rawHeaders) ==
    IF ~IsObj(headers) THEN Obj(<<>>)
    ELSE Obj([i \in 1..Len(headers.kv) |->
                LET key      == headers.kv[i][1]
                    isSecret == \/ StartsWithEnv(rawHeaders, key)
                                \/ \E word \in {"auth", "token", "key", "secret"} :
                                      KeyIncludes(key, word)
                IN  <<key, IF isSecret THEN MASK ELSE headers.kv[i][2]>>])

\* fetchData(source) when the network does env and process.env is penv: what it
\* returns or throws, the requests it issued and what it logged
fetchData(source, env, penv) ==
    IF ~UrlParses(Get(source, "url").v)
    THEN [out |-> Threw("fetch", <<"Invalid URL">>), requests |-> <<>>, log |-> <<>>]
    ELSE LET resolvedHdrs == resolveHeaders(Get(source, "headers"), penv)
             request == [url |-> Get(source, "url"), method |-> Get(source, "method"),
                         headers |-> resolvedHdrs]
             logged  == [step |-> "request", url |-> Get(source, "url"),
                         method |-> Get(source, "method"),
                         headers |-> maskHeaders(resolvedHdrs, Get(source, "headers"))]
         IN  IF IsThrow(resolvedHdrs)
             THEN [out |-> resolvedHdrs, requests |-> <<>>, log |-> <<>>]
             ELSE IF env.k = "reject"
             THEN [out |-> Threw("fetch", <<"fetch failed">>),
                   requests |-> <<request>>, log |-> <<logged>>]
             ELSE [out |-> IF ~ResponseOk(env.status)
                           THEN Threw("fetch", <<"HTTP">> \o NatToStr(env.status))
                           ELSE Str(env.body),
                   requests |-> <<request>>,
                   log |-> <<logged, [step |-> "response", status |-> env.status,
                                      body |-> Str(env.body)]>>]

\* fetchBrowser(source): the page is loaded by the browser, not by fetch()
fetchBrowser(source, env) ==
    [out |-> IF env.k = "reject" THEN Threw("fetch", <<"fetch failed">>) ELSE Str(env.body),
     requests |-> <<>>, log |-> <<>>]

\* fetchSource(source) when the network does env and process.env is penv
fetchSource(source, env, penv) ==
    IF Get(source, "type") = Str(<<"browser">>) THEN fetchBrowser(source, env)
    ELSE fetchData(source, env, penv)

\* Sources with headers, and the process environments they are fetched under
HeaderSource(headers) == Obj(HttpSource.kv \o << <<"headers", Obj(headers)>> >>)
HeaderSources ==
    {HeaderSource(<< <<"X-Api-Key", Str(<<"$env:", "API_KEY">>)>>,
                     <<"Accept", Str(<<"application/json">>)>> >>),
     HeaderSource(<< <<"Accept", Str(<<"application/json">>)>>,
                     <<"Cookie", Str(<<"$env:", "SESSION">>)>> >>),
     HeaderSource(<< <<"Authorization", Str(<<"Bearer", "abc">>)>>,
                     <<"Accept", Str(<<"$env:">>)>> >>)}
NoEnv == Obj(<<>>)
ProcessEnvs ==
    {NoEnv,
     Obj(<< <<"API_KEY", Str(<<"s3cret">>)>>, <<"SESSION", Str(<<"sid">>)>> >>),
     Obj(<< <<"API_KEY", Str(<<>>)>>, <<"SESSION", Str(<<"sid">>)>> >>),
     Obj(<< <<"API_KEY", Str(<<"s3cret">>)>> >>)}
\* process.env matters to a fetch only through the headers of the source
ProcessEnvsFor(source) == IF IsObj(Get(source, "headers")) THEN ProcessEnvs ELSE {NoEnv}

\* The specs resolve is run on
BadUrlSource == Obj(<< HttpSource.kv[1], HttpSource.kv[2],
                       <<"url", Str(<<"api.example/price">>)>> >>)
BrowserSource == Obj(<< <<"type", Str(<<"browser">>)>>,
                        <<"url", Str(<<"https:", "//scores.example">>)>> >>)
ResolveSources == {HttpSource, BadUrlSource, BrowserSource} \cup HeaderSources
ScriptExtraction(code) == Obj(<< <<"type", Str(<<"script">>)>>, <<"code", Str(code)>> >>)
ResolveScripts ==
    {FunctionDecl(b) : b \in {BodyReturnRaw, BodyReturnScore, BodyReturnNull, BodyThrowBad,
                              BodyLoop, BodyToJSONLoop, BodyUseProcess}}
    \cup {<<st>> \o FunctionDecl(BodyReturnRaw) : st \in {TopThrowBoom, TopLoop, TopUseFetch}}
    \cup {<<"function", "extract", "(r)", "@">>, VarDecl("const", BodyReturnRaw)}
ResolveExtractions ==
    {Obj(<< <<"type", Str(<<"jsonpath">>)>>, <<"path", Str(path)>> >>) :
        path \in {<<"$", "data", "amount">>, <<"$", "price">>}}
    \cup {ScriptExtraction(code) : code \in ResolveScripts}
ResolveTransforms == {Obj(<< <<"type", Str(<<ty>>)>> >>) : ty \in {"decimal", "score_diff", "percent"}}
ResolveRules == {RuleGt100,
                 Obj(<< <<"type", Str(<<"equals">>)>>, <<"value", Num(1)>> >>),
                 Obj(<< <<"type", Str(<<"at_least">>)>>, <<"value", Num(1)>> >>)}
ResolveSpecs ==
    {Obj(<< <<"marketId", Str(<<"btc-100k">>)>>, <<"source", src>>, <<"extraction", ex>>,
            <<"transform", tf>>, <<"rule", ru>> >>) :
        src \in ResolveSources, ex \in ResolveExtractions, tf \in ResolveTransforms,
        ru \in ResolveRules}

\* resolve(spec, privateKey) is called (line 9)
ResolveCall ==
    /\ rpc = "idle"
    /\ \E spec \in ResolveSpecs, key \in PrivateKeys : rspec' = spec /\ rkey' = key
    /\ rpc' = "fetch"
    /\ UNCHANGED <<rawResponse, extracted, transformed, result, calls, emitted, raised,
                   signVars, chainVars, sandboxVars, validVars, aiVars, oracleVars, stageVars, netVars, toolVars, hostVars>>

Raise(out) == IF IsThrow(out) THEN Append(raised, out) ELSE raised

\* line 16: rawResponse = await fetchSource(spec.source)
FetchStage ==
    /\ rpc = "fetch"
    /\ \E env \in FetchOutcomes, penv \in ProcessEnvsFor(Get(rspec, "source")) :
         LET run == fetchSource(Get(rspec, "source"), env, penv)
         IN  /\ rawResponse' = run.out
             /\ raised' = Raise(run.out)
             /\ rpc' = AfterStage("fetch", run.out, "extract")
             /\ requests' = requests \o run.requests
             /\ auditLog' = auditLog \o run.log
             /\ processEnv' = penv
    /\ calls' = Append(calls, "fetchSource")
    /\ UNCHANGED <<rspec, rkey, extracted, transformed, result, emitted,
                   signVars, chainVars, sandboxVars, validVars, aiVars, oracleVars, stageVars,
                   toolVars, hostVars>>

IsScriptExtraction(spec) == Get(Get(spec, "extraction"), "type") = Str(<<"script">>)

\* line 18 with a jsonpath extraction
ExtractStage ==
    /\ rpc = "extract"
    /\ ~IsScriptExtraction(rspec)
    /\ LET out == IF IsThrow(rawResponse) THEN rawResponse
                  ELSE extractJsonPath(rawResponse.v, Get(Get(rspec, "extraction"), "path").v)
       IN  /\ extracted' = out
           /\ raised' = Raise(out)
           /\ rpc' = AfterStage("extract", out, "transform")
    /\ calls' = Append(calls, "extractValue")
    /\ UNCHANGED <<rspec, rkey, rawResponse, transformed, result, emitted,
                   signVars, chainVars, sandboxVars, validVars, aiVars, oracleVars, stageVars, netVars, toolVars, hostVars>>

\* line 18 with a script extraction: extractValue calls executeScript
ExtractScriptStart ==
    /\ rpc = "extract"
    /\ IsScriptExtraction(rspec)
    /\ ~IsThrow(rawResponse)
    /\ script' = [code |-> Get(Get(rspec, "extraction"), "code").v, raw |-> rawResponse.v]
    /\ spc' = "define"
    /\ reach' = <<>>
    /\ sout' = None
    /\ rpc' = "extracting"
    /\ calls' = Append(calls, "extractValue")
    /\ UNCHANGED <<rspec, rkey, rawResponse, extracted, transformed, result, emitted, raised,
                   signVars, chainVars, validVars, aiVars, oracleVars, stageVars, netVars, toolVars, hostVars>>

\* executeScript has returned or thrown, and so does extractValue
ExtractScriptEnd ==
    /\ rpc = "extracting"
    /\ spc \in {"returned", "threw"}
    /\ LET out == IF sout.t = "return" THEN Str(sout.v) ELSE sout
       IN  /\ extracted' = out
           /\ raised' = Raise(out)
           /\ rpc' = AfterStage("extract", out, "transform")
    /\ UNCHANGED <<rspec, rkey, rawResponse, transformed, result, calls, emitted,
                   signVars, chainVars, sandboxVars, validVars, aiVars, oracleVars, stageVars, netVars, toolVars, hostVars>>

\* line 21: transformed = transformValue(extracted, spec.transform)
TransformStage ==
    /\ rpc = "transform"
    /\ LET out == IF IsThrow(extracted) THEN extracted
                  ELSE transformValue(extracted.v, Get(rspec, "transform"))
       IN  /\ transformed' = out
           /\ raised' = Raise(out)
           /\ rpc' = AfterStage("transform", out, "evaluate")
    /\ calls' = Append(calls, "transformValue")
    /\ UNCHANGED <<rspec, rkey, rawResponse, extracted, result, emitted,
                   signVars, chainVars, sandboxVars, validVars, aiVars, oracleVars, stageVars, netVars, toolVars, hostVars>>

\* line 24: result = evaluateRule(transformed, spec.rule)
EvaluateStage ==
    /\ rpc = "evaluate"
    /\ LET out == IF IsThrow(transformed) THEN transformed
                  ELSE evaluateRule(transformed.v, Get(rspec, "rule"))
       IN  /\ result' = out
           /\ raised' = Raise(out)
           /\ rpc' = AfterStage("evaluate", out, "sign")
    /\ calls' = Append(calls, "evaluateRule")
    /\ UNCHANGED <<rspec, rkey, rawResponse, extracted, transformed, emitted,
                   signVars, chainVars, sandboxVars, validVars, aiVars, oracleVars, stageVars, netVars, toolVars, hostVars>>

\* lines 27-31: payload = await hashAndSign(...); return payload
SignStage ==
    /\ rpc = "sign"
    /\ LET out == IF IsThrow(rawResponse) \/ IsThrow(transformed) \/ IsThrow(result)
                  THEN Threw("sign", <<"bad input">>)
                  ELSE hashAndSign(rspec, rawResponse.v, transformed.v, result.v, rkey, nowMs)
       IN  /\ raised' = Raise(out)
           /\ emitted' = IF IsThrow(out) THEN emitted ELSE Append(emitted, out)
           /\ rpc' = AfterStage("sign", out, "returned")
    /\ calls' = Append(calls, "hashAndSign")
    /\ UNCHANGED <<rspec, rkey, rawResponse, extracted, transformed, result,
                   signVars, chainVars, sandboxVars, validVars, aiVars, oracleVars, stageVars, netVars, toolVars, hostVars>>

-----------------------------------------------------------------------------
(* validateSpec *)

VALID_TRANSFORM_TYPES == <<"decimal", "score_diff", "score_sum">>
VALID_RULE_TYPES == <<"greater_than", "less_than", "equals">>

\* typeof x
TypeOf(x) == IF x.t = "null" THEN "object" ELSE x.t

\* list.includes(x) for a list of strings
Includes(list, x) == IsStr(x) /\ Len(x.v) = 1 /\ \E i \in 1..Len(list) : list[i] = x.v[1]

\* `${x}` throws a TypeError: x is an object whose own toString is not callable
\* (a value read from JSON is never callable), and the valueOf it inherits
\* returns x itself.
TemplateThrows(x) == IsObj(x) /\ "toString" \in Keys(x)

\* path.endsWith(".home") || path.endsWith(".away") for a path string
EndsWithScoreField(path) == Len(path) >= 2 /\ path[Len(path)] \in {"home", "away"}

\* JSONPath({path, json: {}, resultType: "path"}) returns: the path compiles
PathCompiles(path) == ~Contains(path, "[?(")

\* The regular expressions of lines 174-195 on the code
DeclaresExtract(code) == DeclKind(code) \in {"function", "const", "let", "var"}
MatchesRequire(code) == Contains(code, BodyUseRequire)
MatchesImport(code)  == Contains(code, "import ('fs');")
MatchesFetch(code)   == Contains(code, TopUseFetch)
MatchesProcess(code) == Contains(code, BodyUseProcess)

\* The outcome of a part of validateSpec: the errors and warnings it pushes, and
\* whether it throws.
Part(errors, warnings) == [errors |-> errors, warnings |-> warnings, throws |-> FALSE]
PartThrows == [errors |-> <<>>, warnings |-> <<>>, throws |-> TRUE]
If(c, list) == IF c THEN list ELSE <<>>

\* lines 63-65
CheckMarketId(s) ==
    LET id == Get(s, "marketId")
    IN  Part(If(~IsStr(id) \/ Len(id.v) = 0, <<"marketId must be a non-empty string">>), <<>>)

\* lines 78-89 and 121-132
CheckUrl(url) ==
    IF ~IsStr(url) \/ Len(url.v) = 0
    THEN Part(<<"source.url must be a non-empty string">>, <<>>)
    ELSE IF ~UrlParses(url.v) THEN Part(<<"source.url is not a valid URL">>, <<>>)
    ELSE Part(<<>>, If(url.v[1] = "http:", <<"source.url uses HTTP instead of HTTPS">>))

\* The names the registry's sources give as auth.envVar
RegistryEnvVars == {"API_KEY"}

RECURSIVE CheckHeaders(_)
\* lines 102-117, over the entries of headers
CheckHeaders(kv) ==
    IF kv = <<>> THEN Part(<<>>, <<>>)
    ELSE LET value == Head(kv)[2]
             rest  == CheckHeaders(Tail(kv))
             here  == IF ~IsStr(value)
                      THEN Part(<<"source.headers[key] must be a string">>, <<>>)
                      ELSE Part(<<>>, If(/\ Len(value.v) >= 1 /\ value.v[1] = "$env:"
                                         /\ ~(Len(value.v) = 2 /\ value.v[2] \in RegistryEnvVars),
                                         <<"Header references $env var not in registry">>))
         IN  Part(here.errors \o rest.errors, here.warnings \o rest.warnings)

\* lines 68-142
CheckSource(s) ==
    LET src == Get(s, "source")
    IN  IF ~Truthy(src) \/ TypeOf(src) # "object"
        THEN Part(<<"source must be an object">>, <<>>)
        ELSE IF Get(src, "type") = Str(<<"http">>)
        THEN LET method  == Part(If(Get(src, "method") \notin {Str(<<"GET">>), Str(<<"POST">>)},
                                    <<"source.method must be GET or POST">>), <<>>)
                 url     == CheckUrl(Get(src, "url"))
                 query   == Part(If(/\ Get(src, "query") # Undefined
                                    /\ TypeOf(Get(src, "query")) # "object" \/ Get(src, "query") = Null,
                                    <<"source.query must be an object if provided">>), <<>>)
                 hs      == Get(src, "headers")
                 headers == IF hs = Undefined THEN Part(<<>>, <<>>)
                            ELSE IF TypeOf(hs) # "object" \/ hs = Null
                            THEN Part(<<"source.headers must be an object if provided">>, <<>>)
                            ELSE CheckHeaders(hs.kv)
             IN  Part(method.errors \o url.errors \o query.errors \o headers.errors,
                      url.warnings \o headers.warnings)
        ELSE IF Get(src, "type") = Str(<<"browser">>)
        THEN LET url == CheckUrl(Get(src, "url"))
                 wf  == Get(src, "waitFor")
             IN  Part(url.errors \o If(wf # Undefined /\ (~IsStr(wf) \/ Len(wf.v) = 0),
                                       <<"source.waitFor must be a non-empty string if provided">>),
                      url.warnings)
        ELSE Part(<<"source.type must be http or browser">>, <<>>)

\* lines 145-202
CheckExtraction(s) ==
    LET ext == Get(s, "extraction")
    IN  IF ~Truthy(ext) \/ TypeOf(ext) # "object"
        THEN Part(<<"extraction must be an object">>, <<>>)
        ELSE IF Get(ext, "type") = Str(<<"jsonpath">>)
        THEN LET path == Get(ext, "path")
             IN  IF ~IsStr(path) \/ Len(path.v) = 0
                 THEN Part(<<"extraction.path must be a non-empty string">>, <<>>)
                 ELSE Part(If(~PathCompiles(path.v), <<"extraction.path has invalid JSONPath syntax">>),
                           <<>>)
        ELSE IF Get(ext, "type") = Str(<<"script">>)
        THEN LET lang == If(Get(ext, "lang") # Str(<<"javascript">>),
                            <<"extraction.lang must be javascript">>)
                 code == Get(ext, "code")
             IN  IF ~IsStr(code) \/ Len(code.v) = 0
                 THEN Part(lang \o <<"extraction.code must be a non-empty string">>, <<>>)
                 ELSE Part(lang
                           \o If(~DeclaresExtract(code.v),
                                 <<"extraction.code must define an extract() function">>)
                           \o If(~SyntaxOK(code.v), <<"extraction.code has syntax error">>),
                           If(MatchesRequire(code.v), <<"extraction.code contains require()">>)
                           \o If(MatchesImport(code.v), <<"extraction.code contains import">>)
                           \o If(MatchesFetch(code.v), <<"extraction.code contains fetch()">>)
                           \o If(MatchesProcess(code.v), <<"extraction.code references process">>))
        ELSE Part(<<"extraction.type must be jsonpath or script">>, <<>>)

\* lines 205-214
CheckTransform(s) ==
    LET tf == Get(s, "transform")
    IN  IF ~Truthy(tf) \/ TypeOf(tf) # "object"
        THEN Part(<<"transform must be an object">>, <<>>)
        ELSE IF Includes(VALID_TRANSFORM_TYPES, Get(tf, "type")) THEN Part(<<>>, <<>>)
        ELSE IF TemplateThrows(Get(tf, "type")) THEN PartThrows
        ELSE Part(<<"transform.type must be one of: decimal, score_diff, score_sum">>, <<>>)

\* Number.isFinite(x) for a number x
NumberIsFinite(x) == x.fin

\* lines 217-230
CheckRule(s) ==
    LET r == Get(s, "rule")
    IN  IF ~Truthy(r) \/ TypeOf(r) # "object"
        THEN Part(<<"rule must be an object">>, <<>>)
        ELSE LET value == Get(r, "value")
                 bad   == If(~IsNum(value) \/ ~NumberIsFinite(value),
                             <<"rule.value must be a finite number">>)
             IN  IF Includes(VALID_RULE_TYPES, Get(r, "type")) THEN Part(bad, <<>>)
                 ELSE IF TemplateThrows(Get(r, "type")) THEN PartThrows
                 ELSE Part(<<"rule.type must be one of: greater_than, less_than, equals">> \o bad,
                           <<>>)

\* lines 233-244: path.endsWith is called on whatever truthy value path is, and
\* only a string has it
CheckCompatibility(s) ==
    IF ~(Truthy(Get(s, "transform")) /\ Truthy(Get(s, "extraction"))) THEN Part(<<>>, <<>>)
    ELSE LET ext  == Get(s, "extraction")
             tf   == Get(Get(s, "transform"), "type")
             path == Get(ext, "path")
         IN  IF ~(/\ Get(ext, "type") = Str(<<"jsonpath">>)
                  /\ tf \in {Str(<<"score_diff">>), Str(<<"score_sum">>)})
             THEN Part(<<>>, <<>>)
             ELSE IF ~Truthy(path) THEN Part(<<>>, <<>>)
             ELSE IF ~IsStr(path) THEN PartThrows
             ELSE Part(<<>>, If(EndsWithScoreField(path.v),
                                <<"Transform expects a score object {home, away}">>))

\* A report that counts a warning as a failure
ReportOfWarningsFail(errors, warnings) ==
    [t |-> "report", valid |-> Len(errors) = 0 /\ Len(warnings) = 0, errors |-> errors,
     warnings |-> warnings]

\* The report of line 246 for the errors and warnings collected
ReportOf(errors, warnings) ==
    [t |-> "report", valid |-> Len(errors) = 0, errors |-> errors, warnings |-> warnings]

\* validateSpec(spec): its report, or what it throws
validateSpec(spec) ==
    IF ~Truthy(spec) \/ TypeOf(spec) # "object"
    THEN [t |-> "report", valid |-> FALSE, errors |-> <<"Spec must be a non-null object">>,
          warnings |-> <<>>]
    ELSE LET from(parts) ==
                 IF \E i \in 1..6 : parts[i].throws
                 THEN Threw("validate", <<"TypeError">>)
                 ELSE ReportOf(parts[1].errors \o parts[2].errors \o parts[3].errors
                                 \o parts[4].errors \o parts[5].errors \o parts[6].errors,
                               parts[1].warnings \o parts[2].warnings \o parts[3].warnings
                                 \o parts[4].warnings \o parts[5].warnings \o parts[6].warnings)
         IN  from(<<CheckMarketId(spec), CheckSource(spec), CheckExtraction(spec),
                    CheckTransform(spec), CheckRule(spec), CheckCompatibility(spec)>>)

\* The values validateSpec is run on
Field(k, vals) == {<<>>} \cup {<< <<k, v>> >> : v \in vals}
HttpWith(url, extra) == Obj(<< <<"type", Str(<<"http">>)>>, <<"method", Str(<<"GET">>)>>,
                               <<"url", url>> >> \o extra)
PlainHttpUrl == Str(<<"http:", "//api.example/price">>)
ValidateSources ==
    {HttpSource, BadUrlSource, BrowserSource, Str(<<"http">>),
     HttpWith(PlainHttpUrl, <<>>),
     HttpWith(Num(7), <<>>),
     HttpWith(PlainHttpUrl, << <<"query", Num(1)>> >>),
     HttpWith(HttpSource.kv[3][2],
              << <<"headers", Obj(<< <<"X-Key", Str(<<"$env:", "API_KEY">>)>>,
                                     <<"X-Other", Str(<<"$env:", "OTHER">>)>>,
                                     <<"X-N", Num(1)>> >>)>> >>),
     Obj(<< <<"type", Str(<<"http">>)>>, <<"method", Str(<<"PUT">>)>>, HttpSource.kv[3] >>),
     Obj(<< <<"type", Str(<<"browser">>)>>, <<"url", PlainHttpUrl>>, <<"waitFor", Str(<<>>)>> >>),
     Obj(<< <<"type", Str(<<"ftp">>)>> >>)}
ValidateExtractions ==
    {Obj(<< <<"type", Str(<<"jsonpath">>)>> >> \o f) :
        f \in Field("path", {PathAmount, Str(<<"$", "score", "home">>), Str(<<"$", "[?(">>),
                             Str(<<>>), Num(5), Num(0)})}
    \cup {Obj(<< <<"type", Str(<<"script">>)>>, <<"lang", Str(<<"javascript">>)>>,
                 <<"code", Str(c)>> >>) :
            c \in {FunctionDecl(BodyReturnRaw), FunctionDecl(BodyUseRequire),
                   FunctionDecl(BodyUseTimer),
                   <<TopUseFetch>> \o FunctionDecl(BodyUseProcess),
                   VarDecl("const", BodyReturnRaw),
                   <<"function", "extract", "(r)", "@">>, <<"var", "x", "=", "1;">>, <<>>}}
    \cup {Obj(<< <<"type", Str(<<"script">>)>>, <<"lang", Str(<<"python">>)>>,
                 <<"code", Str(FunctionDecl(BodyReturnRaw))>> >>)}
    \cup {Obj(<< <<"type", Str(<<"xpath">>)>> >>), Num(3)}
BadToString == Obj(<< <<"toString", Num(1)>> >>)
ValidateTransforms ==
    {Obj(f) : f \in Field("type", {Str(<<"decimal">>), Str(<<"score_diff">>), Str(<<"percent">>),
                                   BadToString})}
    \cup {Str(<<"decimal">>)}
ValidateRules ==
    {Obj(<< <<"type", ty>>, <<"value", Num(100)>> >>) :
        ty \in {Str(<<"greater_than">>), Str(<<"at_least">>), BadToString}}
    \cup {Obj(<< <<"type", Str(<<"equals">>)>> >> \o f) :
            f \in Field("value", {Infinity, NaN, Str(<<"1">>)})}
ValidateInputs ==
    {Undefined, Null, Num(5), Str(<<"spec">>), Bool(TRUE), Obj(<<>>)}
    \cup {Obj(id \o << <<"source", src>>, <<"extraction", ex>>, <<"transform", tf>>,
                       <<"rule", ru>> >>) :
            id \in Field("marketId", {Str(<<"btc-100k">>)}),
            src \in ValidateSources, ex \in ValidateExtractions, tf \in ValidateTransforms,
            ru \in ValidateRules}

\* validateSpec is called on a value
ValidateSpecCall ==
    /\ vinput = None
    /\ \E spec \in ValidateInputs :
         /\ vinput' = spec
         /\ vreport' = validateSpec(spec)
    /\ UNCHANGED <<resolveVars, signVars, chainVars, sandboxVars, aiVars, oracleVars, stageVars, netVars, toolVars, hostVars>>

-----------------------------------------------------------------------------
(* extractValue and transformValue called on their own *)

ExtractRaws ==
    {JSONstringify(d) : d \in JsonDocs \cup MatchDocs} \cup {<<"<html>">>, <<>>, <<"7">>}
ExtractPaths ==
    {<<"$", "prices", "*">>, <<"$", "data", "*">>, <<"$", "data", "amount">>, <<"$", "price">>,
     <<"$", "*", "*">>}

\* extractValue(rawResponse, extraction) for an extraction of type jsonpath
ExtractValueCall ==
    /\ ecall = None
    /\ \E raw \in ExtractRaws, path \in ExtractPaths :
         ecall' = [rawResponse |-> Str(raw),
                   extraction  |-> Obj(<< <<"type", Str(<<"jsonpath">>)>>,
                                          <<"path", Str(path)>> >>),
                   out         |-> extractJsonPath(raw, path)]
    /\ UNCHANGED <<resolveVars, signVars, chainVars, sandboxVars, validVars, aiVars,
                   oracleVars, tcall, netVars, toolVars, hostVars>>

ExtractedStrings ==
    {<<>>, <<"a", "b", "c">>, <<"n", "/", "a">>, <<"1", "0", "5">>, <<"-", "7">>, <<"0">>,
     <<"1", "0", "5", "a", "b", "c">>, <<"1", "2", " ", "U", "S", "D">>,
     <<"Infinity">>, <<"-", "Infinity">>, <<"NaN">>, <<"<html>">>, <<"null">>, <<"true">>}
    \cup {JSONstringify(d) : d \in ScoreDocs}
TransformTypes == {"decimal", "score_diff", "score_sum", "percent"}

\* transformValue(extracted, transform)
TransformValueCall ==
    /\ tcall = None
    /\ \E str \in ExtractedStrings, ty \in TransformTypes :
         LET transform == Obj(<< <<"type", Str(<<ty>>)>> >>)
         IN  tcall' = [extracted |-> Str(str), transform |-> transform,
                       out |-> transformValue(str, transform)]
    /\ UNCHANGED <<resolveVars, signVars, chainVars, sandboxVars, validVars, aiVars,
                   oracleVars, ecall, netVars, toolVars, hostVars>>

\* evaluateRule called on its own: the values transformValue hands over and
\* rules as a spec file can hold them
ParsedValues == {<<"1", "0", "5">>, <<"1", "0", "0">>, <<"-", "7">>, <<"0">>, <<"7">>,
                 <<"Infinity">>, <<"NaN">>, <<"-", "1", "0", "0">>}
RuleTypes    == {Str(<<"greater_than">>), Str(<<"less_than">>), Str(<<"equals">>),
                 Str(<<"greater_or_equal">>), Str(<<"EQUALS">>), Undefined}
RuleValues   == {Num(100), Num(-7), Num(0), Infinity}
EvaluatedRules == {Obj(<< <<"type", ty>>, <<"value", v>> >>) : ty \in RuleTypes, v \in RuleValues}

EvaluateRuleCall ==
    /\ rcall = None
    /\ \E parsedValue \in ParsedValues, rule \in EvaluatedRules :
         rcall' = [parsedValue |-> Str(parsedValue), rule |-> rule,
                   out |-> evaluateRule(parsedValue, rule)]
    /\ UNCHANGED <<resolveVars, signVars, chainVars, sandboxVars, validVars, aiVars,
                   oracleVars, stageVars, netVars, toolCall, hostVars>>

-----------------------------------------------------------------------------
(* VoranOracle called by anyone, with any arguments *)

OracleMarketIds  == {keccak256(toBytes(<<id>>)) : id \in {"btc-100k", "eth-5k"}}
OracleSpecHashes == {SpecHashOf(SpecA), SpecHashOf(SpecAReordered)}
OracleAddresses  == {ZeroAddress, Address("k1")}
OracleWindows    == {<<40, 3700>>, <<3700, 40>>, <<40, 40>>}

\* 65 bytes that are no signature: v = 0
BadVSignature == [len |-> 65, signer |-> ZeroAddress, digest |-> ZeroBytes32, v |-> 0]

\* The signatures settle is called with for given fields: by k1 or k2 over the
\* fields, 65 bytes that are no signature, or 64 bytes
OracleSignatures(id, h, rawHash, parsedValue, res, executedAt) ==
    {signMessage(keccak256(VerifierMessage(id, h, rawHash, parsedValue, res, executedAt)), key) :
        key \in {"k1", "k2"}}
    \cup {BadVSignature, [BadVSignature EXCEPT !.len = 64]}

OraclePayloads ==
    LET rawHash == keccak256(toBytes(<<"raw">>))
        payloads(id, h, res) ==
            {[t |-> "payload", marketId |-> id, specHash |-> h, rawHash |-> rawHash,
              parsedValue |-> <<"1", "0", "5">>, result |-> res, executedAt |-> 50,
              signature |-> sig] :
                sig \in OracleSignatures(id, h, rawHash, <<"1", "0", "5">>, res, 50)}
    IN  UNION {payloads(x[1], x[2], x[3]) :
                 x \in OracleMarketIds \X OracleSpecHashes \X BOOLEAN}

\* createMarket(marketId, specHash, oracle, windowStart, windowEnd)
OracleCreateMarket ==
    /\ \E id \in OracleMarketIds, h \in OracleSpecHashes, oracle \in OracleAddresses,
          w \in OracleWindows :
         LET out == createMarketOutcome(markets, id, w[1], w[2])
         IN  /\ lastCall' = [t |-> "createMarket", marketId |-> id,
                             windowStart |-> w[1], windowEnd |-> w[2],
                             existed |-> id \in DOMAIN markets,
                             before |-> Market(markets, id), outcome |-> out]
             /\ markets' = IF out = "ok" THEN createMarket(markets, id, h, oracle, w[1], w[2])
                           ELSE markets
    /\ UNCHANGED <<resolveVars, signVars, blockTime, created, settleLog, sandboxVars,
                   validVars, aiVars, stageVars, netVars, toolVars, hostVars>>

\* settle(marketId, specHash, rawHash, parsedValue, result, executedAt, signature)
OracleSettle ==
    /\ \E p \in OraclePayloads :
         LET out == settleOutcome(markets, p, blockTime)
         IN  /\ lastCall' = [t |-> "settle", marketId |-> p.marketId,
                             payload |-> p, timestamp |-> blockTime,
                             existed |-> p.marketId \in DOMAIN markets,
                             before |-> Market(markets, p.marketId), outcome |-> out]
             /\ markets' = IF out = "ok" THEN settle(markets, p) ELSE markets
    /\ UNCHANGED <<resolveVars, signVars, blockTime, created, settleLog, sandboxVars,
                   validVars, aiVars, stageVars, netVars, toolVars, hostVars>>

-----------------------------------------------------------------------------
(* dryRunSpec: template-library.ts lines 258-278 *)

RawPreviewLimit == 2000

\* line 267: the raw response, cut after RawPreviewLimit characters
RawPreview(raw) ==
    IF Len(raw) > RawPreviewLimit THEN SubSeq(raw, 1, RawPreviewLimit) \o <<"...">> ELSE raw

\* The value a failed stage threw
ThrownValue(out) == IF "e" \in DOMAIN out THEN out.e ELSE Error("Error", out.msg)

\* lines 272-277: the catch clause reads e.message; on a thrown null or
\* undefined that read throws a TypeError, which leaves dryRunSpec
DryRunCatch(out) ==
    LET e == ThrownValue(out)
    IN  IF e.t \in {"null", "undefined"}
        THEN [t |-> "throw",
              e |-> Error("TypeError", <<"Cannot read properties of">> \o JSString(e))]
        ELSE [t |-> "result", success |-> FALSE,
              error |-> IF e.t = "error" THEN Str(e.message) ELSE Undefined]

\* lines 262-271, from the outcome of extractValue on
DryRunFrom(spec, raw, extractedValue) ==
    LET afterRule(transformedValue, ruleResult) ==
            IF IsThrow(ruleResult) THEN DryRunCatch(ruleResult)
            ELSE [t |-> "result", success |-> TRUE,
                  rawResponse      |-> Str(RawPreview(raw.v)),
                  extractedValue   |-> extractedValue,
                  transformedValue |-> transformedValue,
                  ruleResult       |-> ruleResult]
        afterTransform(transformedValue) ==
            IF IsThrow(transformedValue) THEN DryRunCatch(transformedValue)
            ELSE afterRule(transformedValue,
                           evaluateRule(transformedValue.v, Get(spec, "rule")))
    IN  IF IsThrow(extractedValue) THEN DryRunCatch(extractedValue)
        ELSE afterTransform(transformValue(extractedValue.v, Get(spec, "transform")))

DryRunScripts ==
    {FunctionDecl(b) : b \in {BodyReturnRaw, BodyReturnScore, BodyReturnNull, BodyThrowBad,
                              BodyThrowNull, BodyLoop, BodyToJSONThrow, BodyUseProcess}}
    \cup {<<st>> \o FunctionDecl(BodyReturnRaw) : st \in {TopThrowBoom, TopLoop, TopUseFetch}}
    \cup {<<"function", "extract", "(r)", "@">>}
DryRunExtractions ==
    {Obj(<< <<"type", Str(<<"jsonpath">>)>>, <<"path", Str(path)>> >>) :
        path \in {<<"$", "data", "amount">>, <<"$", "price">>}}
    \cup {ScriptExtraction(code) : code \in DryRunScripts}
DryRunSpecs ==
    {Obj(<< <<"marketId", Str(<<"btc-100k">>)>>, <<"source", src>>, <<"extraction", ex>>,
            <<"transform", tf>>, <<"rule", ru>> >>) :
        src \in {HttpSource, BadUrlSource}, ex \in DryRunExtractions,
        tf \in ResolveTransforms, ru \in ResolveRules}

\* dryRunSpec(spec) is called: line 260, and lines 261-277 unless extractValue
\* has a script to run
DryRunCall ==
    /\ dspec = None
    /\ spc = "idle"
    /\ \E spec \in DryRunSpecs, env \in FetchOutcomes :
         LET run        == fetchSource(Get(spec, "source"), env, NoEnv)
             raw        == run.out
             extraction == Get(spec, "extraction")
         IN  /\ dspec' = spec
             /\ requests' = requests \o run.requests
             /\ auditLog' = auditLog \o run.log
             /\ processEnv' = NoEnv
             /\ IF IsThrow(raw)
                THEN /\ dout' = DryRunCatch(raw)
                     /\ UNCHANGED sandboxVars
                ELSE IF IsScriptExtraction(spec)
                THEN /\ dout' = [t |-> "extracting", rawResponse |-> raw]
                     /\ script' = [code |-> Get(extraction, "code").v, raw |-> raw.v]
                     /\ spc' = "define"
                     /\ reach' = <<>>
                     /\ sout' = None
                ELSE /\ dout' = DryRunFrom(spec, raw,
                                           extractJsonPath(raw.v, Get(extraction, "path").v))
                     /\ UNCHANGED sandboxVars
    /\ UNCHANGED <<resolveVars, signVars, chainVars, validVars, tinput, tout,
                   oracleVars, stageVars, toolVars, hostVars>>

\* executeScript has returned or thrown: lines 261-277 go on from there
DryRunScriptEnd ==
    /\ dout.t = "extracting"
    /\ spc \in {"returned", "threw"}
    /\ dout' = DryRunFrom(dspec, dout.rawResponse,
                          IF sout.t = "return" THEN Str(sout.v) ELSE sout)
    /\ UNCHANGED <<resolveVars, signVars, chainVars, sandboxVars, validVars, tinput, tout,
                   dspec, oracleVars, stageVars, netVars, toolVars, hostVars>>

-----------------------------------------------------------------------------
(* The test_extraction tool: tools.ts lines 134-190 *)

\* lines 145-149: the headers of an http source are resolved, and the source
\* handed to fetchSource carries the resolved values
ResolvedSource(source, penv) ==
    IF Get(source, "type") = Str(<<"http">>) /\ IsObj(Get(source, "headers"))
    THEN LET resolved == resolveHeaders(Get(source, "headers"), penv)
         IN  IF IsThrow(resolved) THEN resolved
             ELSE Obj([i \in 1..Len(source.kv) |->
                         IF source.kv[i][1] = "headers" THEN <<"headers", resolved>>
                         ELSE source.kv[i]])
    ELSE source

\* lines 152-182, from the raw response on, for a jsonpath extraction
TestExtractionFrom(raw, extraction, transform) ==
    LET rawPreview     == Str(RawPreview(raw.v))
        extractedValue == extractJsonPath(raw.v, Get(extraction, "path").v)
    IN  IF IsThrow(extractedValue)
        THEN [success |-> FALSE, rawResponsePreview |-> rawPreview,
              error |-> Str(<<"Extraction failed:">> \o extractedValue.msg)]
        ELSE LET transformedValue == transformValue(extractedValue.v, transform)
             IN  IF IsThrow(transformedValue)
                 THEN [success |-> FALSE, rawResponsePreview |-> rawPreview,
                       extractedValue |-> extractedValue,
                       error |-> Str(<<"Transform failed:">> \o transformedValue.msg)]
                 ELSE [success |-> TRUE, rawResponsePreview |-> rawPreview,
                       extractedValue |-> extractedValue,
                       transformedValue |-> transformedValue]

ToolSources == HeaderSources \cup {HttpSource, BadUrlSource}
ToolExtractions ==
    {Obj(<< <<"type", Str(<<"jsonpath">>)>>, <<"path", Str(path)>> >>) :
        path \in {<<"$", "data", "amount">>, <<"$", "price">>}}
ToolTransforms == {Obj(<< <<"type", Str(<<ty>>)>> >>) : ty \in {"decimal", "score_diff"}}

\* test_extraction.execute({source, extraction, transform})
TestExtractionCall ==
    /\ toolCall = None
    /\ \E source \in ToolSources, extraction \in ToolExtractions, transform \in ToolTransforms,
          env \in FetchOutcomes :
         \E penv \in ProcessEnvsFor(source) :
            LET resolvedSource == ResolvedSource(source, penv)
                run == IF IsThrow(resolvedSource)
                       THEN [out |-> resolvedSource, requests |-> <<>>, log |-> <<>>]
                       ELSE fetchSource(resolvedSource, env, penv)
            IN  /\ toolCall' =
                      [tool |-> "test_extraction", source |-> source,
                       extraction |-> extraction, transform |-> transform,
                       out |-> IF IsThrow(run.out)
                               THEN [success |-> FALSE,
                                     error |-> Str(<<"Fetch failed:">> \o run.out.msg)]
                               ELSE TestExtractionFrom(run.out, extraction, transform)]
                /\ requests' = requests \o run.requests
                /\ auditLog' = auditLog \o run.log
                /\ processEnv' = penv
    /\ UNCHANGED <<resolveVars, signVars, chainVars, sandboxVars, validVars, aiVars, oracleVars,
                   stageVars, rcall, hostVars>>

-----------------------------------------------------------------------------
(* Templates: template.ts *)

\* `{${name}}`, the placeholder of a parameter
Placeholder(name) == "{" \o name \o "}"

RECURSIVE replaceAll(_, _, _)
\* s.replaceAll(tok, by) for a string s in which a placeholder is one token
replaceAll(s, tok, by) ==
    IF s = <<>> THEN <<>>
    ELSE (IF Head(s) = tok THEN by ELSE <<Head(s)>>) \o replaceAll(Tail(s), tok, by)

RECURSIVE SubstituteString(_, _)
\* lines 16-20: one replaceAll after the other, in the order of the entries of
\* replacements, each on the result of the one before
SubstituteString(s, replacements) ==
    IF replacements = <<>> THEN s
    ELSE SubstituteString(replaceAll(s, Placeholder(Head(replacements)[1]),
                                     JSString(Head(replacements)[2])),
                          Tail(replacements))

RECURSIVE substituteParams(_, _)
\* substituteParams(obj, replacements)
substituteParams(obj, replacements) ==
    IF IsStr(obj) THEN Str(SubstituteString(obj.v, replacements))
    ELSE IF IsObj(obj)
    THEN Obj([i \in 1..Len(obj.kv) |->
                <<obj.kv[i][1], substituteParams(obj.kv[i][2], replacements)>>])
    ELSE obj

\* o[k] = v on the list of the properties of o: an existing property keeps its
\* place, a new one comes last
SetEntry(kv, k, v) ==
    IF \E i \in 1..Len(kv) : kv[i][1] = k
    THEN [i \in 1..Len(kv) |-> IF kv[i][1] = k THEN <<k, v>> ELSE kv[i]]
    ELSE Append(kv, <<k, v>>)

\* /^-?\d+(\.\d+)?$/.test(s), for strings without a decimal part
LooksNumeric(s) ==
    \/ AllDigits(s)
    \/ Len(s) >= 2 /\ Head(s) = "-" /\ AllDigits(Tail(s))

\* parseQueryValues(query)
parseQueryValues(query) ==
    Obj([i \in 1..Len(query.kv) |->
           LET value == query.kv[i][2]
           IN  <<query.kv[i][1],
                 IF IsStr(value) /\ LooksNumeric(value.v) THEN JSNumber(value) ELSE value>>])

\* values[i] (counting from 1): undefined past the end of the array
ValueAt(values, i) == IF i <= Len(values) THEN values[i] ELSE Undefined

RECURSIVE ReplacementsOf(_, _)
\* lines 71-74: replacements[param.name] = param.values[i], param after param
ReplacementsOf(params, i) ==
    IF params = <<>> THEN <<>>
    ELSE LET last == params[Len(params)]
         IN  SetEntry(ReplacementsOf(SubSeq(params, 1, Len(params) - 1), i),
                      last.name, ValueAt(last.values, i))

\* lines 71-112: the spec of row i, or what building it throws
ExpandRow(template, i) ==
    LET replacements == ReplacementsOf(template.params, i)
        marketId     == substituteParams(template.marketIdTemplate, replacements)
        source0      == substituteParams(template.source, replacements)
        extraction   == substituteParams(template.extraction, replacements)
        value        == Get(template.rule, "value")
        substituted  == substituteParams(value, replacements)
        ruleValue    == IF IsStr(value) THEN parseFloat(substituted.v) ELSE value
        source       == IF Get(source0, "type") = Str(<<"http">>) /\ Truthy(Get(source0, "query"))
                        THEN Obj(SetEntry(source0.kv, "query",
                                          parseQueryValues(Get(source0, "query"))))
                        ELSE source0
        spec         == << <<"marketId", marketId>>, <<"source", source>>,
                           <<"extraction", extraction>>, <<"transform", template.transform>>,
                           <<"rule", Obj(<< <<"type", Get(template.rule, "type")>>,
                                            <<"value", ruleValue>> >>)>> >>
    IN  IF IsStr(value) /\ isNaN(ruleValue)
        THEN Threw("expand", <<"rule.value substituted to">> \o substituted.v
                             \o <<"which is not a number">>)
        ELSE IF Truthy(template.timestampRule)
        THEN Obj(Append(spec, <<"timestampRule",
                                substituteParams(template.timestampRule, replacements)>>))
        ELSE Obj(spec)

\* An expansion that takes the row count from params[0] and checks no length
LengthMismatchIgnored(params) == FALSE

\* lines 59-66: some param.values.length differs from params[0].values.length
LengthMismatch(params) ==
    \E k \in 1..Len(params) : Len(params[k].values) # Len(params[1].values)

\* expandTemplate(template): the specs it returns, or what it throws
expandTemplate(template) ==
    LET params == template.params
    IN  IF Len(params) = 0 THEN [t |-> "specs", specs |-> <<>>]
        ELSE LET count == Len(params[1].values)
                 rows  == [i \in 1..count |-> ExpandRow(template, i)]
             IN  IF LengthMismatch(params)
                 THEN Threw("expand", <<"All params must have the same number of values">>)
                 ELSE IF \E i \in 1..count : IsThrow(rows[i])
                 THEN rows[CHOOSE i \in 1..count :
                             IsThrow(rows[i]) /\ \A j \in 1..(i - 1) : ~IsThrow(rows[j])]
                 ELSE [t |-> "specs", specs |-> rows]

\* The templates expandTemplate is run on
Param(name, values) == [name |-> name, values |-> values]
Dates == <<Str(<<"2", "0", "2", "6">>), Str(<<"2", "0", "2", "7">>), Str(<<"{strike}">>)>>
ParamLists ==
    {<<>>,
     <<Param("date", SubSeq(Dates, 1, 2))>>,
     <<Param("date", SubSeq(Dates, 1, 2)), Param("strike", <<Num(100), Str(<<"1", "0", "5">>)>>)>>,
     <<Param("strike", <<Num(100), Str(<<"1", "0", "5">>)>>), Param("date", SubSeq(Dates, 2, 3))>>,
     <<Param("date", SubSeq(Dates, 2, 3)), Param("strike", <<Num(100), Str(<<"1", "0", "5">>)>>)>>,
     <<Param("date", SubSeq(Dates, 1, 2)), Param("strike", <<Num(100)>>)>>,
     <<Param("date", SubSeq(Dates, 1, 1)), Param("strike", <<Num(100), Num(7)>>)>>,
     <<Param("date", Dates), Param("strike", <<Num(1), Num(2)>>), Param("n", <<Num(1), Num(2), Num(3)>>)>>,
     <<Param("date", SubSeq(Dates, 1, 2)),
       Param("strike", <<Num(100), Str(<<"1", "0", "0", "k">>)>>)>>,
     <<Param("date", SubSeq(Dates, 1, 2)), Param("strike", <<Num(100), Str(<<"Infinity">>)>>)>>,
     <<Param("date", SubSeq(Dates, 1, 2)), Param("strike", <<Num(100), Str(<<"n", "/", "a">>)>>)>>,
     <<Param("date", SubSeq(Dates, 1, 2)), Param("strike", <<Str(<<>>), Num(100)>>)>>}
MarketIdTemplates == {<<"btc-", "{date}">>, <<"btc-", "{date}", "-", "{strike}">>, <<"btc">>}
TemplateRuleValues == {Num(100), Str(<<"{strike}">>), Str(<<"1", "0", "0">>),
                       Str(<<"{strike}", "0">>)}
TemplateSources ==
    {HttpSource,
     Obj(HttpSource.kv \o << <<"query", Obj(<< <<"date", Str(<<"{date}">>)>>,
                                              <<"limit", Str(<<"5">>)>>,
                                              <<"strike", Str(<<"{strike}">>)>>,
                                              <<"page", Num(2)>> >>)>> >>)}
TemplateExtractions ==
    {Obj(<< <<"type", Str(<<"jsonpath">>)>>, <<"path", Str(<<"$", "data", "amount">>)>> >>),
     Obj(<< <<"type", Str(<<"jsonpath">>)>>, <<"path", Str(<<"$", "{date}", "amount">>)>> >>)}
Templates ==
    {[marketIdTemplate |-> Str(id), source |-> src, extraction |-> ex,
      transform |-> Obj(<< <<"type", Str(<<"decimal">>)>> >>),
      rule |-> Obj(<< <<"type", Str(<<"greater_than">>)>>, <<"value", rv>> >>),
      timestampRule |-> Undefined, params |-> ps] :
        id \in MarketIdTemplates, src \in TemplateSources, ex \in TemplateExtractions,
        rv \in TemplateRuleValues, ps \in ParamLists}

\* What dryRunSpec(spec) makes of the outcome run of fetchSource, for a spec
\* with a jsonpath extraction (template-library.ts lines 258-278)
DryRunOf(spec, run) ==
    [out |-> IF IsThrow(run.out) THEN DryRunCatch(run.out)
             ELSE DryRunFrom(spec, run.out,
                             extractJsonPath(run.out.v,
                                             Get(Get(spec, "extraction"), "path").v)),
     requests |-> run.requests, log |-> run.log]

\* dryRunSpec(spec) when the network does env: what it returns, the requests
\* issued and what was logged
dryRunSpec(spec, env) == DryRunOf(spec, fetchSource(Get(spec, "source"), env, NoEnv))

\* An acceptance that dry-runs every variant
DryRunEvery(specs) == specs

\* The specs dryRunSpec is called on: specs[0] (template.ts line 137, tools.ts
\* line 318, generateSpec line 117)
DryRunTargets(specs) == IF Len(specs) > 0 THEN <<specs[1]>> ELSE <<>>

RECURSIVE Concat(_)
\* The sequences of seqs joined in order
Concat(seqs) == IF seqs = <<>> THEN <<>> ELSE Head(seqs) \o Concat(Tail(seqs))

\* dryRunSpec on each of targets in turn: the results, requests and log lines
DryRunAll(targets, env) ==
    LET collect(runs) ==
            [outs |-> [i \in 1..Len(runs) |-> runs[i].out],
             requests |-> Concat([i \in 1..Len(runs) |-> runs[i].requests]),
             log |-> Concat([i \in 1..Len(runs) |-> runs[i].log])]
    IN  collect([i \in 1..Len(targets) |-> dryRunSpec(targets[i], env)])

\* What a call that accepts a template did: the specs it generated, those
\* validateSpec and dryRunSpec were called on, what it returned or threw, the
\* requests it issued and what it logged
Acceptance(tool, template, dryRun, specs, validated, dryRuns, out, runs) ==
    [call |-> [tool |-> tool, template |-> template, dryRun |-> dryRun, specs |-> specs,
               validated |-> validated, dryRuns |-> dryRuns, out |-> out],
     requests |-> runs.requests, log |-> runs.log]

NoRuns == [outs |-> <<>>, requests |-> <<>>, log |-> <<>>]

AcceptTemplates == {tpl \in Templates : tpl.source = HttpSource}

\* expandAndValidate(template, {dryRun}) (template.ts lines 124-141), where
\* expanded is what expandTemplate(template) returned or threw
expandAndValidate(template, dryRun, env, expanded) ==
    LET validations(specs) == [i \in 1..Len(specs) |->
                                 <<Get(specs[i], "marketId"), validateSpec(specs[i])>>]
        done(specs, targets, runs) ==
            Acceptance("expandAndValidate", template, dryRun, specs, specs, targets,
                       [specs |-> specs, validations |-> validations(specs),
                        dryRunResult |-> runs.outs], runs)
        validated(specs, targets) == done(specs, targets, DryRunAll(targets, env))
    IN  IF IsThrow(expanded)
        THEN Acceptance("expandAndValidate", template, dryRun, <<>>, <<>>, <<>>,
                        expanded, NoRuns)
        ELSE validated(expanded.specs,
                       IF dryRun THEN DryRunTargets(expanded.specs) ELSE <<>>)

\* expandAndValidate is called on a template
ExpandAndValidateCall ==
    /\ toolCall = None
    /\ \E template \in AcceptTemplates, dryRun \in BOOLEAN, env \in FetchOutcomes :
         \E expanded \in {expandTemplate(template)} :
            \E done \in {expandAndValidate(template, dryRun, env, expanded)} :
               /\ toolCall' = done.call
               /\ requests' = requests \o done.requests
               /\ auditLog' = auditLog \o done.log
    /\ UNCHANGED <<resolveVars, signVars, chainVars, sandboxVars, validVars, aiVars, oracleVars,
                   stageVars, processEnv, rcall, hostVars>>

\* The errors submit_template collects: marketId and errors of each invalid spec
SubmitErrors(specs) ==
    LET inOrder(bad) ==
            [k \in 1..Cardinality(bad) |->
                LET i == CHOOSE j \in bad : Cardinality({m \in bad : m <= j}) = k
                IN  [marketId |-> Get(specs[i], "marketId"), report |-> validateSpec(specs[i])]]
    IN  CHOOSE errors \in {inOrder(bad) :
                             bad \in {{i \in 1..Len(specs) : ~validateSpec(specs[i]).valid}}} : TRUE

\* submit_template.execute(input) (tools.ts lines 256-339), where expanded is
\* what expandTemplate(input) returns or throws
submitTemplate(template, env, expanded) ==
    LET fail(errors) == [success |-> FALSE, errors |-> errors]
        failed(specs, validated, errors) ==
            Acceptance("submit_template", template, TRUE, specs, validated, <<>>,
                       fail(errors), NoRuns)
        done(specs, targets, runs) ==
            Acceptance("submit_template", template, TRUE, specs, specs, targets,
                       IF \E n \in 1..Len(runs.outs) :
                             ~(runs.outs[n].t = "result" /\ runs.outs[n].success)
                       THEN fail(<<"Dry-run failed">>)
                       ELSE [success |-> TRUE, template |-> template,
                             expandedCount |-> Len(specs), dryRunSample |-> runs.outs],
                       runs)
        valid(specs, targets) == done(specs, targets, DryRunAll(targets, env))
        checked(specs, errors) ==
            IF Len(errors) > 0 THEN failed(specs, specs, errors)
            ELSE valid(specs, DryRunTargets(specs))
    IN  IF LengthMismatch(template.params)
        THEN failed(<<>>, <<>>, <<"All params must have the same number of values">>)
        ELSE IF ~\E k \in 1..Len(template.params) :
                    Contains(template.marketIdTemplate.v, Placeholder(template.params[k].name))
        THEN failed(<<>>, <<>>,
                    <<"marketIdTemplate must contain at least one {param} placeholder">>)
        ELSE IF IsThrow(expanded) THEN failed(<<>>, <<>>, expanded.msg)
        ELSE checked(expanded.specs, SubmitErrors(expanded.specs))

\* The agent calls submit_template; the input schema admits only params with
\* at least one entry, each with at least one value (tools.ts lines 240-254)
SubmitTemplateCall ==
    /\ toolCall = None
    /\ \E template \in AcceptTemplates, env \in FetchOutcomes :
         /\ Len(template.params) >= 1
         /\ \A k \in 1..Len(template.params) : Len(template.params[k].values) >= 1
         /\ \E expanded \in {expandTemplate(template)} :
               \E done \in {submitTemplate(template, env, expanded)} :
                  /\ toolCall' = done.call
                  /\ requests' = requests \o done.requests
                  /\ auditLog' = auditLog \o done.log
    /\ UNCHANGED <<resolveVars, signVars, chainVars, sandboxVars, validVars, aiVars, oracleVars,
                   stageVars, processEnv, rcall, hostVars>>

\* generateSpec once the agent has submitted a template (part_000 lines
\* 109-135), where expanded is what expandTemplate(submittedTemplate) returns
\* or throws
generateSpecTemplate(submittedTemplate, dryRun, env, expanded) ==
    LET done(specs, targets, runs) ==
            Acceptance("generateSpec", submittedTemplate, dryRun, specs, <<>>, targets,
                       [type |-> "template", template |-> submittedTemplate,
                        specs |-> specs, dryRunResult |-> runs.outs], runs)
        expandedTo(specs, targets) == done(specs, targets, DryRunAll(targets, env))
    IN  IF IsThrow(expanded)
        THEN Acceptance("generateSpec", submittedTemplate, dryRun, <<>>, <<>>, <<>>,
                        expanded, NoRuns)
        ELSE expandedTo(expanded.specs,
                        IF dryRun THEN DryRunTargets(expanded.specs) ELSE <<>>)

\* generateSpec reaches its template path
GenerateSpecTemplatePath ==
    /\ toolCall = None
    /\ \E submittedTemplate \in AcceptTemplates, dryRun \in BOOLEAN, env \in FetchOutcomes :
         \E expanded \in {expandTemplate(submittedTemplate)} :
            \E done \in {generateSpecTemplate(submittedTemplate, dryRun, env, expanded)} :
               /\ toolCall' = done.call
               /\ requests' = requests \o done.requests
               /\ auditLog' = auditLog \o done.log
    /\ UNCHANGED <<resolveVars, signVars, chainVars, sandboxVars, validVars, aiVars, oracleVars,
                   stageVars, processEnv, rcall, hostVars>>

\* expandTemplate is called on a template
ExpandTemplateCall ==
    /\ tinput = None
    /\ \E template \in Templates :
         /\ tinput' = [t |-> "template", template |-> template]
         /\ tout' = expandTemplate(template)
    /\ UNCHANGED <<resolveVars, signVars, chainVars, sandboxVars, validVars, dspec, dout,
                   oracleVars, stageVars, netVars, toolVars, hostVars>>

-----------------------------------------------------------------------------
(* Initial states and specifications *)

ResolveIdle ==
    /\ rpc = "idle" /\ rspec = None /\ rkey = "none"
    /\ rawResponse = None /\ extracted = None /\ transformed = None /\ result = None
    /\ calls = <<>> /\ emitted = <<>> /\ raised = <<>>
SignInit    == nowMs = ClockStartMs /\ signLog = <<>>
ChainInit   == markets = <<>> /\ blockTime = 0 /\ created = <<>> /\ settleLog = None
SandboxIdle == spc = "idle" /\ script = None /\ reach = <<>> /\ sout = None
ValidIdle   == vinput = None /\ vreport = None
AiIdle      == tinput = None /\ tout = None /\ dspec = None /\ dout = None
OracleIdle  == lastCall = None
StageIdle   == ecall = None /\ tcall = None
NetIdle     == requests = <<>> /\ auditLog = <<>> /\ processEnv = None
ToolIdle    == toolCall = None /\ rcall = None
HostIdle    == hostJSON = "native"

\* Nothing has run yet.
IdleInit == ResolveIdle /\ SignInit /\ ChainInit /\ SandboxIdle /\ ValidIdle
            /\ AiIdle /\ OracleIdle /\ StageIdle /\ NetIdle /\ ToolIdle /\ HostIdle

\* The signer alone: calls of hashAndSign while the clock advances.
SignNext == HashAndSignCall \/ Tick
SpecSign == IdleInit /\ [][SignNext]_vars

\* executeScript run on one script after another.  The JavaScript engine keeps
\* running whatever can run, and the vm timeout fires when it is due.
SandboxNext ==
    \/ ExecuteScriptCall
    \/ DefineProbe \/ DefineCompileError \/ DefineThrow \/ DefineTimeout \/ DefineDone
    \/ CallProbe \/ CallThrow \/ CallTimeout \/ CallReturn
    \/ ConvertResult \/ StringifyCallsToJSON \/ ToJSONLoopStep \/ StringifyThrows
SpecSandbox == IdleInit /\ [][SandboxNext]_vars /\ WF_vars(SandboxNext)

\* One process that runs executeScript on one script after another and signs
\* in between.
ProcessNext == SandboxNext \/ HashAndSignInProcess
SpecProcess == IdleInit /\ [][ProcessNext]_vars

\* One call of resolve: its stages, and the steps of executeScript when the
\* extraction is a script.
ResolveNext ==
    \/ ResolveCall \/ FetchStage \/ ExtractStage \/ ExtractScriptStart \/ ExtractScriptEnd
    \/ DefineProbe \/ DefineCompileError \/ DefineThrow \/ DefineTimeout \/ DefineDone
    \/ CallProbe \/ CallThrow \/ CallTimeout \/ CallReturn
    \/ ConvertResult \/ StringifyCallsToJSON \/ ToJSONLoopStep
    \/ TransformStage \/ EvaluateStage \/ SignStage
SpecResolve == IdleInit /\ [][ResolveNext]_vars

\* validateSpec run on a value
ValidateNext == ValidateSpecCall
SpecValidate == IdleInit /\ [][ValidateNext]_vars

\* VoranOracle under calls of createMarket and settle by anyone, as blocks pass.
OracleNext == OracleCreateMarket \/ OracleSettle \/ ChainTick
SpecOracle == IdleInit /\ [][OracleNext]_vars

\* One call of dryRunSpec, with the steps of executeScript when the
\* extraction is a script.
DryRunNext ==
    \/ DryRunCall \/ DryRunScriptEnd
    \/ DefineProbe \/ DefineCompileError \/ DefineThrow \/ DefineTimeout \/ DefineDone
    \/ CallProbe \/ CallThrow \/ CallTimeout \/ CallReturn
    \/ ConvertResult \/ StringifyThrows
SpecDryRun == IdleInit /\ [][DryRunNext]_vars

\* A template is accepted through one of its three entry points
AcceptNext == ExpandAndValidateCall \/ SubmitTemplateCall \/ GenerateSpecTemplatePath
SpecAccept == IdleInit /\ [][AcceptNext]_vars

\* The test_extraction tool run on one input
ToolNext == TestExtractionCall
SpecTool == IdleInit /\ [][ToolNext]_vars

\* extractValue and transformValue, each run on one input
StageNext == ExtractValueCall \/ TransformValueCall
SpecStage == IdleInit /\ [][StageNext]_vars

\* evaluateRule run on one input
EvaluateNext == EvaluateRuleCall
SpecEvaluate == IdleInit /\ [][EvaluateNext]_vars

\* expandTemplate run on a template
ExpandNext == ExpandTemplateCall
SpecExpand == IdleInit /\ [][ExpandNext]_vars

\* Resolver, create-market and settle-market against one VoranOracle.
SettleNext == CreateMarketCli \/ ResolverRun \/ SettleCli \/ ChainTick
SpecSettle == IdleInit /\ [][SettleNext]_vars

-----------------------------------------------------------------------------
(* Claims about the signer and the verifier *)

Payloads == {signLog[i].out : i \in {j \in 1..Len(signLog) : ~IsThrow(signLog[j].out)}}

\* The digest settle reconstructs from the fields of payload p
VerifierDigest(p) ==
    EthSignedHash(keccak256(VerifierMessage(p.marketId, p.specHash, p.rawHash,
                                            p.parsedValue, p.result, p.executedAt)))

\* C3: the signer signs the message the verifier reconstructs from the payload
\* fields, so settle accepts a resolver payload for a market created from the
\* same spec with the signer's address as oracle, when the market is unsettled
\* and the block time is inside the window.
C3_SignerMatchesVerifier ==
    /\ \A p \in Payloads : p.signature.digest = VerifierDigest(p)
    /\ (/\ settleLog.t = "settle"
        /\ settleLog.sameSpec /\ settleLog.sameKey
        /\ settleLog.unsettled /\ settleLog.inWindow) => settleLog.outcome = "ok"

C3_Witness ==
    /\ settleLog.t = "settle"
    /\ settleLog.sameSpec /\ settleLog.sameKey
    /\ settleLog.unsettled /\ settleLog.inWindow
    /\ settleLog.outcome = "ok"
    /\ \E p \in Payloads : p.marketId \in DOMAIN markets /\ markets[p.marketId].settled

SameSignInputs(a, b) ==
    /\ a.spec = b.spec /\ a.raw = b.raw /\ a.parsedValue = b.parsedValue
    /\ a.result = b.result /\ a.key = b.key

C5_SpecHashCanonical ==
    \A i, j \in 1..Len(signLog) :
        LET a == signLog[i]
            b == signLog[j]
        IN  (SameFields(a.spec, b.spec) /\ ~IsThrow(a.out) /\ ~IsThrow(b.out)) =>
              a.out.specHash = b.out.specHash

\* two specs with the same fields, keys in another order, and two spec hashes
C5_Witness ==
    /\ Len(signLog) = 2
    /\ signLog[1].spec # signLog[2].spec
    /\ SameFields(signLog[1].spec, signLog[2].spec)
    /\ ~IsThrow(signLog[1].out) /\ ~IsThrow(signLog[2].out)
    /\ signLog[1].out.specHash # signLog[2].out.specHash

-----------------------------------------------------------------------------
(* Claims about resolve *)

StageValues == <<rawResponse, extracted, transformed, result>>
IsPrefix(a, b) == Len(a) <= Len(b) /\ a = SubSeq(b, 1, Len(a))

\* C1: a call of resolve has one of two outcomes: it returns one signed payload,
\* and then every stage has succeeded, or it throws one error, and then it
\* returns no payload; hashAndSign is not called after a stage has failed, and
\* no payload and no error come out while stages are still to run.
C1_ResolveAtomicOutcome ==
    /\ Len(emitted) + Len(raised) <= 1
    /\ (rpc = "returned") <=> (Len(emitted) = 1)
    /\ (rpc = "threw") <=> (Len(raised) = 1)
    /\ Len(emitted) = 1 =>
          /\ calls = StageOrder
          /\ \A i \in 1..4 : StageValues[i] # None /\ ~IsThrow(StageValues[i])
          /\ emitted[1].parsedValue = transformed.v
          /\ emitted[1].result = result.v
    /\ (\E i \in 1..Len(calls) : calls[i] = "hashAndSign") =>
          \A i \in 1..4 : StageValues[i] # None /\ ~IsThrow(StageValues[i])

\* resolve threw at the transform stage: one error, no payload, no signing
C1_Witness ==
    /\ rpc = "threw"
    /\ Len(raised) = 1 /\ emitted = <<>>
    /\ calls = SubSeq(StageOrder, 1, 3)
    /\ IsThrow(transformed) /\ ~IsThrow(extracted) /\ extracted # None

\* C2: the stages run in the order fetch, extract, transform, evaluate, sign,
\* each at most once; a stage starts only after the one before it succeeded;
\* once a stage has failed no stage runs again.
C2_StageOrderNoRetry ==
    /\ IsPrefix(calls, StageOrder)
    /\ \A i \in 2..Len(calls) : StageValues[i-1] # None /\ ~IsThrow(StageValues[i-1])
    /\ \A i \in 1..4 : IsThrow(StageValues[i]) => (Len(calls) = i /\ rpc = "threw")
    /\ \A i \in 1..4 : (StageValues[i] # None) => Len(calls) >= i

\* all five stages have run, in order, after a script extraction
C2_Witness ==
    /\ rpc = "returned"
    /\ calls = StageOrder
    /\ IsScriptExtraction(rspec)
    /\ Len(emitted) = 1

-----------------------------------------------------------------------------
(* Claims about the script sandbox *)

\* C6: whatever the script evaluates, it never comes to hold a network,
\* filesystem, process/environment, module-loading or timer capability of the
\* host; a reference to one fails to resolve.
C6_NoCapabilityReachable ==
    \A i \in 1..Len(reach) : reach[i] \notin DeniedCapabilities

\* the body of extract holds the host's process object
C6_Witness ==
    /\ spc = "call"
    /\ \E i \in 1..Len(reach) : reach[i] = "host:process"

\* C7: every call of executeScript ends: once the definition phase has
\* started, the call returns or throws.
C7_ExecuteScriptTerminates ==
    (spc = "define") ~> (spc \in {"returned", "threw"})

\* executeScript is inside the toJSON loop of the value extract returned
C7_Witness == spc = "toJSON:body" /\ sout.t = "result"

\* The kind of failure the caller reads off the error executeScript threw.
ReportedKind(e) ==
    IF e.t # "error" \/ e.ctor # "Error" THEN "other"
    ELSE IF e.message = <<"Script execution timed out">> THEN "timeout"
    ELSE IF Head(e.message) = "Script compilation/execution error:" THEN "compile"
    ELSE IF e.message = <<"Script must define an extract() function">> THEN "nodef"
    ELSE IF Head(e.message) = "extract() threw an error:" THEN "runtime"
    ELSE "other"

FailureKinds == {"compile", "timeout", "runtime", "nodef"}

\* C8: every failure of executeScript is reported as one of the four kinds, and
\* as the kind of what happened: a user exception as a runtime exception, a
\* timeout as a timeout, a syntax error as a compile error, a missing extract
\* as no function defined.
C8_FailureKindReported ==
    sout.t = "throw" => (sout.cause \in FailureKinds /\ ReportedKind(sout.e) = sout.cause)

\* an exception thrown by the body of extract is reported as a timeout
C8_Witness ==
    /\ sout.t = "throw"
    /\ sout.cause = "runtime"
    /\ BodyOf(script.code) = BodyThrowTimedOut
    /\ ReportedKind(sout.e) = "timeout"

-----------------------------------------------------------------------------
(* Claims about validateSpec *)

\* C9: validateSpec never throws: whatever value it is called on, it returns a
\* report.
C9_ValidateSpecNeverThrows ==
    vinput # None => vreport.t = "report"

\* validateSpec threw on an object whose extraction.path is a number
C9_Witness ==
    /\ vinput # None /\ IsObj(vinput)
    /\ Get(Get(vinput, "extraction"), "path") = Num(5)
    /\ Get(Get(vinput, "transform"), "type") = Str(<<"score_diff">>)
    /\ Get(vinput, "rule") = RuleGt100
    /\ IsThrow(vreport)

\* The spec is well formed but for the scheme of its HTTP source URL.
WellFormedPlainHttp(spec) ==
    /\ IsObj(spec)
    /\ Get(spec, "source") = HttpWith(PlainHttpUrl, <<>>)
    /\ Get(spec, "marketId") = Str(<<"btc-100k">>)
    /\ Get(spec, "extraction") \in
          {Obj(<< <<"type", Str(<<"jsonpath">>)>>, <<"path", PathAmount>> >>),
           Obj(<< <<"type", Str(<<"script">>)>>, <<"lang", Str(<<"javascript">>)>>,
                  <<"code", Str(FunctionDecl(BodyReturnRaw))>> >>)}
    /\ Get(spec, "transform") = Obj(<< <<"type", Str(<<"decimal">>)>> >>)
    /\ Get(spec, "rule") = RuleGt100

\* C10: in every report valid is true exactly when errors is empty, whatever
\* the warnings; a well-formed spec whose HTTP source URL has the scheme http:
\* is reported valid, with exactly one warning and no error.
C10_ValidIffNoErrors ==
    (vinput # None /\ vreport.t = "report") =>
        /\ vreport.valid <=> (Len(vreport.errors) = 0)
        /\ WellFormedPlainHttp(vinput) =>
              /\ vreport.valid
              /\ Len(vreport.warnings) = 1
              /\ Len(vreport.errors) = 0

C10_Witness ==
    /\ vinput # None /\ WellFormedPlainHttp(vinput)
    /\ vreport.t = "report" /\ vreport.valid
    /\ vreport.warnings = <<"source.url uses HTTP instead of HTTPS">>

\* The capability class an identifier of the host belongs to
CapabilityClass(name) ==
    CASE name = "require"    -> "module"
      [] name = "fetch"      -> "network"
      [] name = "process"    -> "process"
      [] name = "setTimeout" -> "timer"
      [] OTHER               -> "none"

\* The capability classes the code refers to by name
ReferencedClasses(code) ==
    {CapabilityClass(ProbeOf(code[i])[j].arg) :
        <<i, j>> \in {<<i, j>> \in (1..Len(code)) \X (1..2) :
                        /\ j <= Len(ProbeOf(code[i]))
                        /\ ProbeOf(code[i])[j].op = "ident"
                        /\ CapabilityClass(ProbeOf(code[i])[j].arg) # "none"}}

\* The spec is well formed, with a script extraction whose code parses and
\* declares extract.
WellFormedScriptSpec(spec) ==
    /\ IsObj(spec)
    /\ Get(spec, "marketId") = Str(<<"btc-100k">>)
    /\ Get(spec, "source") = HttpSource
    /\ Get(Get(spec, "extraction"), "type") = Str(<<"script">>)
    /\ Get(Get(spec, "extraction"), "lang") = Str(<<"javascript">>)
    /\ IsStr(Get(Get(spec, "extraction"), "code"))
    /\ DeclaresExtract(Get(Get(spec, "extraction"), "code").v)
    /\ SyntaxOK(Get(Get(spec, "extraction"), "code").v)
    /\ Get(spec, "transform") = Obj(<< <<"type", Str(<<"decimal">>)>> >>)
    /\ Get(spec, "rule") = RuleGt100

\* C11: a well-formed spec whose script declares extract is reported valid
\* whatever denied capability the code refers to, with no error and with one
\* warning for each capability class referred to (module loading, network,
\* process/environment, timers).
C11_ScriptCapabilityWarnings ==
    (vinput # None /\ WellFormedScriptSpec(vinput)) =>
        /\ vreport.t = "report"
        /\ vreport.valid
        /\ Len(vreport.errors) = 0
        /\ Len(vreport.warnings) =
              Cardinality(ReferencedClasses(Get(Get(vinput, "extraction"), "code").v))

\* a script that reads setTimeout is reported valid with no warning at all
C11_Witness ==
    /\ vinput # None /\ WellFormedScriptSpec(vinput)
    /\ BodyOf(Get(Get(vinput, "extraction"), "code").v) = BodyUseTimer
    /\ vreport.t = "report" /\ vreport.valid
    /\ vreport.warnings = <<>>

-----------------------------------------------------------------------------
(* Claims about expandTemplate *)

ParamNames == {"date", "strike", "n"}
IsPlaceholder(tok) == \E name \in ParamNames : tok = Placeholder(name)
PlaceholderFree(str) == \A i \in 1..Len(str) : ~IsPlaceholder(str[i])

\* every params[k].values has the length of params[0].values
SameLengths(params) == \A k \in 1..Len(params) : Len(params[k].values) = Len(params[1].values)

\* C12: when expandTemplate returns for a template with parameters, it returns
\* len(params[0].values) specs, and the marketId of every one of them holds no
\* {name} placeholder any more.
C12_RowCountPlaceholderFree ==
    (tinput # None /\ tout.t = "specs" /\ Len(tinput.template.params) > 0) =>
        /\ Len(tout.specs) = Len(tinput.template.params[1].values)
        /\ \A i \in 1..Len(tout.specs) : PlaceholderFree(Get(tout.specs[i], "marketId").v)

\* two specs were returned for a marketIdTemplate naming {strike}, which is not
\* a parameter, and their marketId still holds {strike}
C12_Witness ==
    /\ tinput # None /\ tout.t = "specs"
    /\ Len(tinput.template.params) = 1
    /\ tinput.template.params[1].name = "date"
    /\ Len(tout.specs) = 2
    /\ Get(tout.specs[1], "marketId") = Str(<<"btc-", "2", "0", "2", "6", "-", "{strike}">>)

\* C13: when some params[i].values has another length than params[0].values,
\* expandTemplate throws and returns no spec, whichever of the two is shorter.
C13_LengthMismatchFails ==
    (tinput # None /\ Len(tinput.template.params) > 0 /\ ~SameLengths(tinput.template.params)) =>
        /\ IsThrow(tout)
        /\ tout.msg = <<"All params must have the same number of values">>

\* expandTemplate threw on params[0] with two values and params[1] with one
C13_Witness ==
    /\ tinput # None /\ IsThrow(tout)
    /\ Len(tinput.template.params) = 2
    /\ Len(tinput.template.params[1].values) = 2
    /\ Len(tinput.template.params[2].values) = 1

\* The rule.value string of row i after substitution
RuleValueText(template, i) ==
    substituteParams(Get(template.rule, "value"), ReplacementsOf(template.params, i)).v

\* The whole string is a finite number
IsFiniteNumberText(str) == LooksNumeric(str)

\* C14: for a template whose rule.value is a string, every spec returned has as
\* rule.value the finite number that the whole substituted string denotes, and
\* when the substituted string of some row is not a finite number (text,
\* trailing garbage, Infinity) expandTemplate throws and returns no spec.
C14_RuleValueParsedWhole ==
    (/\ tinput # None
     /\ Len(tinput.template.params) > 0 /\ SameLengths(tinput.template.params)
     /\ IsStr(Get(tinput.template.rule, "value"))) =>
        LET rows == 1..Len(tinput.template.params[1].values)
        IN  /\ tout.t = "specs" =>
                 \A i \in rows :
                    LET value == Get(Get(tout.specs[i], "rule"), "value")
                    IN  /\ IsNum(value) /\ value.fin
                        /\ NumToStr(value) = RuleValueText(tinput.template, i)
            /\ (\E i \in rows : ~IsFiniteNumberText(RuleValueText(tinput.template, i)))
                 => IsThrow(tout)

\* specs were returned for a rule.value that substitutes to 100k in row 2, and
\* the rule.value of that spec is 100
C14_Witness ==
    /\ tinput # None /\ tout.t = "specs"
    /\ Get(tinput.template.rule, "value") = Str(<<"{strike}">>)
    /\ Len(tout.specs) = 2
    /\ RuleValueText(tinput.template, 2) = <<"1", "0", "0", "k">>
    /\ Get(Get(tout.specs[2], "rule"), "value") = Num(100)

-----------------------------------------------------------------------------
(* Claims about extractValue and transformValue *)

\* The string of one match: a scalar by String, a structured value as JSON
StringOfMatch(value) == IF IsObj(value) THEN JSONstringify(value) ELSE JSString(value)

\* The matches of the path of ecall in the document of ecall
MatchesOfCall ==
    JSONPath(Tail(Get(ecall.extraction, "path").v), <<JSONparse(ecall.rawResponse.v)>>)

\* C15: in path mode extractValue returns the string of the first match of the
\* path and nothing of the other matches; with no match it fails with the
\* no-results error, and on a response that is not JSON with the parse error.
C15_PathFirstMatchOnly ==
    ecall # None =>
        IF IsThrow(JSONparse(ecall.rawResponse.v))
        THEN ecall.out = Threw("extract", <<"Unexpected token in JSON">>)
        ELSE IF Len(MatchesOfCall) = 0
        THEN ecall.out = Threw("extract", <<"JSONPath returned no results">>)
        ELSE ecall.out = Str(StringOfMatch(MatchesOfCall[1]))

\* the path matched three values 1, 9 and "x", and extractValue returned "1"
C15_Witness ==
    /\ ecall # None
    /\ Get(ecall.extraction, "path") = Str(<<"$", "prices", "*">>)
    /\ ~IsThrow(JSONparse(ecall.rawResponse.v))
    /\ MatchesOfCall = <<Num(1), Num(9), Str(<<"x">>)>>
    /\ ecall.out = Str(<<"1">>)

TransformTypeOfCall == Get(tcall.transform, "type").v[1]

\* C16: the decimal transform returns the string form of the number when the
\* whole extracted string is a finite number, and fails on every other string:
\* empty, not numeric, numeric with trailing text, infinite.
C16_DecimalFiniteOnly ==
    (tcall # None /\ TransformTypeOfCall = "decimal") =>
        IF IsFiniteNumberText(tcall.extracted.v)
        THEN tcall.out = Str(NumToStr(JSNumber(tcall.extracted)))
        ELSE IsThrow(tcall.out)

\* the decimal transform returned "105" for the extracted string 105abc
C16_Witness ==
    /\ tcall # None /\ TransformTypeOfCall = "decimal"
    /\ tcall.extracted = Str(<<"1", "0", "5", "a", "b", "c">>)
    /\ tcall.out = Str(<<"1", "0", "5">>)

IsFiniteNum(x) == IsNum(x) /\ x.fin

\* C17: on a JSON object with numeric home and away, score_diff returns the
\* string of home - away and score_sum the string of home + away ("1" and "3"
\* for home 2, away 1); both fail with a transform error when the string is not
\* JSON or when home or away coerces to NaN.
C17_ScoreTransforms ==
    (tcall # None /\ TransformTypeOfCall \in {"score_diff", "score_sum"}) =>
        LET obj  == JSONparse(tcall.extracted.v)
            home == Get(obj, "home")
            away == Get(obj, "away")
            diff == TransformTypeOfCall = "score_diff"
        IN  /\ (IsObj(obj) /\ IsFiniteNum(home) /\ IsFiniteNum(away)) =>
                 tcall.out = Str(NumToStr(Num(IF diff THEN home.v - away.v
                                              ELSE home.v + away.v)))
            /\ (obj = Obj(<< <<"home", Num(2)>>, <<"away", Num(1)>> >>)) =>
                 tcall.out = Str(IF diff THEN <<"1">> ELSE <<"3">>)
            /\ IsThrow(obj) => (IsThrow(tcall.out) /\ tcall.out.kind = "transform")
            /\ (IsObj(obj) /\ (isNaN(JSNumber(home)) \/ isNaN(JSNumber(away)))) =>
                 (IsThrow(tcall.out) /\ tcall.out.kind = "transform")

\* score_diff returned "-7" for {"home":-3,"away":4}
C17_Witness ==
    /\ tcall # None /\ TransformTypeOfCall = "score_diff"
    /\ JSONparse(tcall.extracted.v) = Obj(<< <<"home", Num(-3)>>, <<"away", Num(4)>> >>)
    /\ tcall.out = Str(<<"-", "7">>)

-----------------------------------------------------------------------------
(* Claims about dryRunSpec *)

DryRunEnded == dspec # None /\ dout.t # "extracting"

\* C18: dryRunSpec never throws: whatever stage fails, it returns success
\* false with an error, and it returns success true, with the extracted value,
\* the transformed value and the rule result, only when extraction, transform
\* and evaluation of the fetched response all succeeded.
C18_DryRunNeverThrows ==
    DryRunEnded =>
        /\ dout.t = "result"
        /\ dout.success =>
             /\ IsStr(dout.extractedValue)
             /\ dout.transformedValue =
                   transformValue(dout.extractedValue.v, Get(dspec, "transform"))
             /\ IsStr(dout.transformedValue)
             /\ dout.ruleResult = evaluateRule(dout.transformedValue.v, Get(dspec, "rule"))
             /\ dout.ruleResult.t = "boolean"
        /\ ~dout.success => "error" \in DOMAIN dout

\* dryRunSpec threw a TypeError on a script whose returned object has a toJSON
\* that throws null
C18_Witness ==
    /\ DryRunEnded
    /\ dout.t = "throw"
    /\ IsScriptExtraction(dspec)
    /\ BodyOf(script.code) = BodyToJSONThrow
    /\ sout = Thrown(Null, "runtime")

-----------------------------------------------------------------------------
(* Claims about VoranOracle under arbitrary calls *)

\* C19: a market is settled at most once: a settle on a settled market reverts,
\* and a settled market stays settled, with the result its settle stored,
\* through every later call of createMarket and settle.
C19_SettledOnce ==
    [][/\ \A id \in DOMAIN markets :
            markets[id].settled =>
                /\ markets'[id].settled
                /\ markets'[id].result = markets[id].result
       /\ (lastCall'.t = "settle" /\ lastCall'.before.settled) => lastCall'.outcome # "ok"]_vars

\* createMarket succeeded on a market that was settled, and the market is
\* unsettled again
C19_Witness ==
    /\ lastCall.t = "createMarket" /\ lastCall.outcome = "ok"
    /\ lastCall.before.settled /\ lastCall.before.result
    /\ ~markets[lastCall.marketId].settled

\* C20: createMarket on a marketId that was created before reverts with
\* "market exists" and leaves the market as it was, whatever oracle, specHash
\* and window the first creation used; and createMarket reverts unless
\* windowEnd > windowStart.
C20_CreateOnce ==
    lastCall.t = "createMarket" =>
        /\ lastCall.existed =>
              /\ lastCall.outcome = "market exists"
              /\ markets[lastCall.marketId] = lastCall.before
        /\ ~(lastCall.windowEnd > lastCall.windowStart) => lastCall.outcome # "ok"

\* a second createMarket succeeded on a market created with the zero address
\* as oracle, and replaced its specHash and oracle
C20_Witness ==
    /\ lastCall.t = "createMarket" /\ lastCall.existed /\ lastCall.outcome = "ok"
    /\ lastCall.before.oracle = ZeroAddress
    /\ lastCall.before.specHash = SpecHashOf(SpecA)
    /\ markets[lastCall.marketId].specHash = SpecHashOf(SpecAReordered)
    /\ markets[lastCall.marketId].oracle = Address("k1")

\* The signature of payload p is one made with a key of address oracle over
\* the fields of p
SignedByOracle(p, oracle) ==
    \E key \in {"k1", "k2"} :
        /\ Address(key) = oracle
        /\ p.signature = signMessage(keccak256(VerifierMessage(p.marketId, p.specHash, p.rawHash,
                                                               p.parsedValue, p.result,
                                                               p.executedAt)), key)

\* C21: settle succeeds only on a market that is not settled, with the stored
\* specHash, at a block time inside the window (bounds included) and with a
\* signature by the key of the registered oracle; a settle that reverts leaves
\* the market as it was.
C21_SettleOnlyBySignedPayload ==
    lastCall.t = "settle" =>
        LET m == lastCall.before
            p == lastCall.payload
        IN  /\ lastCall.outcome = "ok" =>
                 /\ ~m.settled
                 /\ m.specHash = p.specHash
                 /\ lastCall.timestamp >= m.settlementWindowStart
                 /\ lastCall.timestamp <= m.settlementWindowEnd
                 /\ SignedByOracle(p, m.oracle)
            /\ lastCall.outcome # "ok" => Market(markets, lastCall.marketId) = m

\* settle succeeded with 65 bytes that are no signature, on a market whose
\* registered oracle is the zero address
C21_Witness ==
    /\ lastCall.t = "settle" /\ lastCall.outcome = "ok"
    /\ lastCall.payload.signature = BadVSignature
    /\ lastCall.before.oracle = ZeroAddress
    /\ markets[lastCall.marketId].settled

-----------------------------------------------------------------------------
(* Claims about headers and the audit log *)

\* resolve is past its fetch stage
FetchDone == rpc \notin {"idle", "fetch"}

\* The headers of the source of the spec resolve runs on
SpecHeaders == Get(Get(rspec, "source"), "headers")

\* The entries of SpecHeaders of the form $env:NAME whose NAME is unset or
\* empty in the process environment of the fetch
UnsetEntries ==
    {i \in 1..Len(SpecHeaders.kv) :
        /\ EnvMatch(SpecHeaders.kv[i][2].v)
        /\ LET envVal == Get(processEnv, EnvVarOf(SpecHeaders.kv[i][2].v))
           IN  envVal.t = "undefined" \/ envVal = Str(<<>>)}

\* C22: for an HTTP source whose URL parses, a header value $env:NAME is
\* replaced by the value of NAME in the process environment before the request
\* is issued; when NAME is unset or empty for some header the fetch stage throws
\* an error naming a variable that is, no request is issued and no payload is
\* emitted; the other header values are sent as they are.
C22_EnvHeadersResolvedAtFetch ==
    (FetchDone /\ IsObj(SpecHeaders) /\ UrlParses(Get(Get(rspec, "source"), "url").v)) =>
        IF UnsetEntries # {}
        THEN /\ IsThrow(rawResponse)
             /\ \E i \in UnsetEntries :
                    Contains(rawResponse.msg, EnvVarOf(SpecHeaders.kv[i][2].v))
             /\ requests = <<>>
             /\ emitted = <<>>
        ELSE /\ Len(requests) = 1
             /\ Len(requests[1].headers.kv) = Len(SpecHeaders.kv)
             /\ \A i \in 1..Len(SpecHeaders.kv) :
                    LET value == SpecHeaders.kv[i][2]
                    IN  requests[1].headers.kv[i] =
                           <<SpecHeaders.kv[i][1],
                             IF EnvMatch(value.v) THEN Get(processEnv, EnvVarOf(value.v))
                             ELSE value>>

\* the fetch stage threw on X-Api-Key: $env:API_KEY with API_KEY set to the
\* empty string, and no request was issued
C22_Witness ==
    /\ FetchDone /\ IsObj(SpecHeaders)
    /\ Get(SpecHeaders, "X-Api-Key") = Str(<<"$env:", "API_KEY">>)
    /\ Get(processEnv, "API_KEY") = Str(<<>>)
    /\ IsThrow(rawResponse)
    /\ requests = <<>> /\ emitted = <<>>

\* The headers as the spec of the fetching call wrote them
WrittenHeaders ==
    IF toolCall # None THEN Get(toolCall.source, "headers")
    ELSE IF rspec # None THEN SpecHeaders
    ELSE Undefined

\* C28: whatever path fetched, every header whose value in the spec has the
\* form $env:NAME is written to the audit log as the mask, whatever its name.
C28_EnvHeadersMaskedInLog ==
    \A n \in 1..Len(auditLog) :
        auditLog[n].step = "request" =>
            \A i \in 1..Len(auditLog[n].headers.kv) :
                LET key == auditLog[n].headers.kv[i][1]
                IN  (IsObj(WrittenHeaders) /\ EnvMatch(Get(WrittenHeaders, key).v)) =>
                        auditLog[n].headers.kv[i][2] = MASK

\* test_extraction sent Cookie: $env:SESSION resolved to sid, and log.request
\* wrote sid
C28_Witness ==
    /\ toolCall # None
    /\ Get(Get(toolCall.source, "headers"), "Cookie") = Str(<<"$env:", "SESSION">>)
    /\ Len(auditLog) >= 1 /\ auditLog[1].step = "request"
    /\ Get(auditLog[1].headers, "Cookie") = Str(<<"sid">>)
    /\ Get(requests[1].headers, "Cookie") = Str(<<"sid">>)

-----------------------------------------------------------------------------
(* Claims about the acceptance of templates *)

Accepted == toolCall # None /\ toolCall.tool \in {"expandAndValidate", "submit_template", "generateSpec"}

\* dryRunSpec ran at most once, on specs[0], and nothing was fetched for a
\* later variant
DryRunOnlyFirst ==
    /\ Len(toolCall.dryRuns) <= 1
    /\ Len(toolCall.dryRuns) = 1 => toolCall.dryRuns[1] = toolCall.specs[1]
    /\ Len(requests) <= Len(toolCall.dryRuns)

\* C23 as stated: when a template is expanded into N specs for acceptance,
\* dryRunSpec runs at most once, on specs[0], and for the variants 2..N nothing
\* is fetched, extracted or validated.
C23_OnlyFirstVariantVerified ==
    Accepted =>
        /\ DryRunOnlyFirst
        /\ \A k \in 2..Len(toolCall.specs) :
              \A n \in 1..Len(toolCall.validated) : toolCall.validated[n] # toolCall.specs[k]

\* C23 amended: dryRunSpec runs at most once, on specs[0], and nothing is
\* fetched or extracted for the variants 2..N; validateSpec runs on every
\* variant in expandAndValidate and submit_template, and on none in the
\* template path of generateSpec.
C23_DryRunFirstValidateAll ==
    Accepted =>
        /\ DryRunOnlyFirst
        /\ toolCall.validated = IF toolCall.tool = "generateSpec" THEN <<>> ELSE toolCall.specs

\* expandAndValidate generated two specs, validated both and dry-ran the first
C23_Witness ==
    /\ Accepted /\ toolCall.tool = "expandAndValidate"
    /\ Len(toolCall.specs) = 2
    /\ toolCall.specs[1] # toolCall.specs[2]
    /\ toolCall.validated = toolCall.specs
    /\ toolCall.dryRuns = <<toolCall.specs[1]>>
    /\ Len(requests) = 1

-----------------------------------------------------------------------------
(* Claims about evaluateRule *)

\* The number each text of ParsedValues denotes
NumberOfText(text) ==
    CASE text = <<"1", "0", "5">>      -> Num(105)
      [] text = <<"1", "0", "0">>      -> Num(100)
      [] text = <<"-", "7">>           -> Num(-7)
      [] text = <<"0">>                -> Num(0)
      [] text = <<"7">>                -> Num(7)
      [] text = <<"-", "1", "0", "0">> -> Num(-100)
      [] text = <<"Infinity">>         -> Infinity
      [] text = <<"NaN">>              -> NaN

\* a > b on numbers: never true of NaN; an infinity is above every finite number
Greater(a, b) ==
    /\ ~isNaN(a) /\ ~isNaN(b)
    /\ \/ a.fin /\ b.fin /\ a.v > b.v
       \/ ~a.fin /\ a.v > 0 /\ b.fin
       \/ a.fin /\ ~b.fin /\ b.v < 0

\* The spec of SpecA with another rule
SpecWithRule(rule) == Obj(<< SpecA.kv[1], SpecA.kv[2], SpecA.kv[3], SpecA.kv[4], <<"rule", rule>> >>)

UnknownRuleType(out) == IsThrow(out) /\ out.msg = <<"Unknown rule type">>

\* C24: evaluateRule returns true exactly when the parsed value is greater than
\* (greater_than), less than (less_than) or equal to (equals) rule.value, it
\* raises the unknown-rule-type error for every other rule.type, and never for
\* the rule of a spec that validateSpec reports valid.
C24_EvaluateRule ==
    rcall # None =>
        LET value  == NumberOfText(rcall.parsedValue.v)
            type   == Get(rcall.rule, "type")
            bound  == Get(rcall.rule, "value")
            report == validateSpec(SpecWithRule(rcall.rule))
        IN  /\ type = Str(<<"greater_than">>) => rcall.out = Bool(Greater(value, bound))
            /\ type = Str(<<"less_than">>)    => rcall.out = Bool(Greater(bound, value))
            /\ type = Str(<<"equals">>)       => rcall.out = Bool(~isNaN(value) /\ value = bound)
            /\ type \notin {Str(<<"greater_than">>), Str(<<"less_than">>), Str(<<"equals">>)}
                  => UnknownRuleType(rcall.out)
            /\ report.t = "report" /\ report.valid => ~UnknownRuleType(rcall.out)

\* a valid spec's rule greater_than 100 was evaluated on "100": false
C24_Witness ==
    /\ rcall # None
    /\ rcall.rule = Obj(<< <<"type", Str(<<"greater_than">>)>>, <<"value", Num(100)>> >>)
    /\ rcall.parsedValue = Str(<<"1", "0", "0">>)
    /\ validateSpec(SpecWithRule(rcall.rule)).valid
    /\ rcall.out = Bool(FALSE)

-----------------------------------------------------------------------------
(* Claims about the query values and the substitution of expandTemplate *)

\* The query value under key of the template, of row i after substitution, and
\* of the spec returned for row i
TemplateQueryValue(key) == Get(Get(tinput.template.source, "query"), key)
SubstitutedQueryValue(key, i) ==
    substituteParams(TemplateQueryValue(key), ReplacementsOf(tinput.template.params, i))
ReturnedQueryValue(key, i) == Get(Get(Get(tout.specs[i], "source"), "query"), key)

\* C25: in every spec expandTemplate returns for an HTTP source with a query
\* map, a query value that is fully numeric after substitution is a number, a
\* value that was a number in the template is the same number, and a value
\* that was a string in the template and received no substitution is unchanged.
C25_QueryNumericTyping ==
    (/\ tinput # None /\ tout.t = "specs"
     /\ IsObj(Get(tinput.template.source, "query"))) =>
        \A i \in 1..Len(tout.specs) :
           \A key \in Keys(Get(tinput.template.source, "query")) :
              LET inTemplate  == TemplateQueryValue(key)
                  substituted == SubstitutedQueryValue(key, i)
                  returned    == ReturnedQueryValue(key, i)
              IN  /\ (IsStr(substituted) /\ substituted # inTemplate
                        /\ LooksNumeric(substituted.v))
                       => IsNum(returned) /\ NumToStr(returned) = substituted.v
                  /\ IsNum(inTemplate) => returned = inTemplate
                  /\ (IsStr(inTemplate) /\ substituted = inTemplate) => returned = inTemplate

\* a spec was returned whose query holds the number 5 where the template holds
\* the string "5", next to a date the substitution wrote
C25_Witness ==
    /\ tinput # None /\ tout.t = "specs" /\ Len(tout.specs) >= 1
    /\ TemplateQueryValue("limit") = Str(<<"5">>)
    /\ ReturnedQueryValue("limit", 1) = Num(5)
    /\ TemplateQueryValue("date") = Str(<<"{date}">>)
    /\ ReturnedQueryValue("date", 1) = Num(2026)
    /\ ReturnedQueryValue("page", 1) = Num(2)

-----------------------------------------------------------------------------
(* Claims about the isolation of scripts *)

\* What executeScript returns for a script whose extract returns its argument,
\* a number or a score object, whatever ran before
IsolatedOutput(code, raw) ==
    CASE BodyOf(code) \in {BodyReturnRaw, BodyPatchJSON} -> raw
      [] BodyOf(code) = BodyReturnNumber -> <<"4", "2">>
      [] BodyOf(code) = BodyReturnScore  ->
            JSONstringify(Obj(<< <<"home", Num(2)>>, <<"away", Num(1)>> >>))

\* C26: the result of executeScript for given (rawResponse, code) does not
\* depend on the scripts run before it; after any sequence of executeScript
\* calls the host's JSON is unchanged; and the specHash hashAndSign computes
\* for a spec does not depend on the scripts run earlier.
C26_ScriptsIsolated ==
    /\ hostJSON = "native"
    /\ (/\ spc = "returned"
        /\ BodyOf(script.code) \in {BodyReturnRaw, BodyPatchJSON, BodyReturnNumber, BodyReturnScore})
          => sout = Returned(IsolatedOutput(script.code, script.raw))
    /\ \A i \in 1..Len(signLog) :
          ~IsThrow(signLog[i].out) => signLog[i].out.specHash = SpecHashOf(signLog[i].spec)

\* after a script assigned to JSON.stringify, a script returning a score object
\* returned "0", and hashAndSign computed the hash of "0" as specHash of SpecA
C26_Witness ==
    /\ hostJSON = "patched"
    /\ spc = "returned"
    /\ BodyOf(script.code) = BodyReturnScore
    /\ sout = Returned(<<DQ, "0", DQ>>)
    /\ signLog # <<>>
    /\ signLog[1].spec = SpecA
    /\ ~IsThrow(signLog[1].out)
    /\ signLog[1].out.specHash = keccak256(toBytes(<<DQ, "0", DQ>>))
    /\ signLog[1].out.specHash # SpecHashOf(SpecA)

-----------------------------------------------------------------------------
(* Claims about the validator and the sandbox together *)

\* SpecA with a javascript extraction script in place of its path
SpecWithScript(code) ==
    Obj(<< SpecA.kv[1], SpecA.kv[2],
           <<"extraction", Obj(<< <<"type", Str(<<"script">>)>>,
                                  <<"lang", Str(<<"javascript">>)>>,
                                  <<"code", Str(code)>> >>)>>,
           SpecA.kv[4], SpecA.kv[5] >>)

\* validateSpec finds nothing wrong with the script
ValidatorAcceptsScript(code) ==
    LET report == validateSpec(SpecWithScript(code))
    IN  report.t = "report" /\ report.valid

\* C27: for every script that validateSpec accepts as declaring extract
\* (function, const, let or var form), executeScript finds a callable extract
\* after the definition phase and does not fail with "Script must define an
\* extract() function".
C27_ValidatorSandboxAgree ==
    (/\ spc \in {"call", "convert", "returned", "threw"}
     /\ ValidatorAcceptsScript(script.code))
       => /\ SandboxHasExtract(script.code)
          /\ ~(sout.t = "throw" /\ sout.e = NoExtractError)

\* executeScript threw "Script must define an extract() function" on
\* const extract = function (r) { return r }, which validateSpec reports valid
C27_Witness ==
    /\ spc = "threw"
    /\ script.code = VarDecl("const", BodyReturnRaw)
    /\ ValidatorAcceptsScript(script.code)
    /\ sout = Thrown(NoExtractError, "nodef")

\* The string s with every placeholder {name} of replacements replaced by its
\* value, all at once: what a value brings in is not looked at again
SimultaneousString(s, replacements) ==
    Concat([k \in 1..Len(s) |->
              IF \E e \in 1..Len(replacements) : s[k] = Placeholder(replacements[e][1])
              THEN JSString(replacements[CHOOSE e \in 1..Len(replacements) :
                                            s[k] = Placeholder(replacements[e][1])][2])
              ELSE <<s[k]>>])

\* C29: the strings expandTemplate produces are those of one simultaneous
\* replacement of the placeholders: they do not depend on the order of the
\* entries of params, and text a parameter value brings in (a value holding
\* {otherName} included) is not substituted again.
C29_SimultaneousSubstitution ==
    (tinput # None /\ tout.t = "specs") =>
        \A i \in 1..Len(tout.specs) :
           LET replacements == ReplacementsOf(tinput.template.params, i)
           IN  /\ Get(tout.specs[i], "marketId")
                    = Str(SimultaneousString(tinput.template.marketIdTemplate.v, replacements))
               /\ Get(Get(tout.specs[i], "extraction"), "path")
                    = Str(SimultaneousString(Get(tinput.template.extraction, "path").v,
                                             replacements))

\* with params date then strike, the row date = "{strike}", strike = "105" of
\* the template btc-{date} was returned with the marketId btc-105
C29_Witness ==
    /\ tinput # None /\ tout.t = "specs" /\ Len(tout.specs) = 2
    /\ tinput.template.marketIdTemplate = Str(<<"btc-", "{date}">>)
    /\ tinput.template.params[1] = Param("date", SubSeq(Dates, 2, 3))
    /\ tinput.template.params[2].name = "strike"
    /\ Get(tout.specs[2], "marketId") = Str(<<"btc-", "1", "0", "5">>)

-----------------------------------------------------------------------------
\* A home or away field that holds a number: a JSON number, or a non-empty
\* string that reads as one
RealScoreField(x) ==
    \/ IsFiniteNum(x)
    \/ x.t = "string" /\ x.v # <<>> /\ ~isNaN(JSNumber(x))

\* C30: score_diff and score_sum produce a value only from a real score: when
\* the extracted JSON is not an object, or its home or away field is absent,
\* null, an empty string, a boolean or anything else that is not a number,
\* transformValue fails with a transform error, so a score whose fields are
\* null never becomes the value 0.
C30_OnlyRealScores ==
    (tcall # None /\ TransformTypeOfCall \in {"score_diff", "score_sum"}) =>
        LET obj == JSONparse(tcall.extracted.v)
        IN  (\/ IsThrow(obj)
             \/ ~IsObj(obj)
             \/ ~RealScoreField(Get(obj, "home"))
             \/ ~RealScoreField(Get(obj, "away"))) =>
                (IsThrow(tcall.out) /\ tcall.out.kind = "transform")

\* score_diff returned "0" for {"home":null,"away":null}
C30_Witness ==
    /\ tcall # None /\ TransformTypeOfCall = "score_diff"
    /\ JSONparse(tcall.extracted.v) = Obj(<< <<"home", Null>>, <<"away", Null>> >>)
    /\ tcall.out = Str(<<"0">>)

====
